---- MODULE Spec2Model ----
(***************************************************************************)
(* A model of db-mcp-server's dialect-aware capability layer:              *)
(*   - the connection registry of pkg/dbtools/config.go (a map guarded by  *)
(*     a sync.RWMutex), and                                                *)
(*   - the tool handlers of internal/delivery/mcp (HandleRequest of each   *)
(*     tool, with the SQL builders they call).                             *)
(*                                                                         *)
(* Text (Go strings) is a sequence of tokens.  A token is a TLA+ string:   *)
(* a single character where the code looks at characters (names, dialect   *)
(* names), a whole fragment where the code only copies it (the fixed SQL   *)
(* of a builder, with its whitespace squeezed and long bodies elided by    *)
(* "...").                                                                 *)
(***************************************************************************)
EXTENDS Integers, Sequences, FiniteSets, TLC

\* ------------------------------------------------------------------ bounds

\* Number of goroutines using the registry concurrently.
NumProcs == 2
\* Number of RegisterDatabaseConfig calls in one run.
MaxRegisterCalls == 2

\* ------------------------------------------------------------------- text

\* strings.ToLower on one character (ASCII letters).
Upper == <<"A","B","C","D","E","F","G","H","I","J","K","L","M",
           "N","O","P","Q","R","S","T","U","V","W","X","Y","Z">>
Lower == <<"a","b","c","d","e","f","g","h","i","j","k","l","m",
           "n","o","p","q","r","s","t","u","v","w","x","y","z">>

LowerChar(c) ==
    IF \E i \in 1..Len(Upper) : Upper[i] = c
    THEN Lower[CHOOSE i \in 1..Len(Upper) : Upper[i] = c]
    ELSE c

\* strings.ToLower(s)
ToLower(s) == [i \in 1..Len(s) |-> LowerChar(s[i])]

\* strings.Replace(s, old, new, -1) for a one-character old.
RECURSIVE Replace(_, _, _)
Replace(s, old, new) ==
    IF s = <<>> THEN <<>>
    ELSE IF Head(s) = old THEN new \o Replace(Tail(s), old, new)
    ELSE <<Head(s)>> \o Replace(Tail(s), old, new)

\* The concatenation of a sequence of texts.
RECURSIVE Concat(_)
Concat(ss) == IF ss = <<>> THEN <<>> ELSE Head(ss) \o Concat(Tail(ss))

\* The characters the code compares or escapes.
\* BT stands for the backquote character (U+0060), which cannot be written
\* inside a TLA+ string.
SQ == "'"
DQ == "\""
BT == "<backquote>"

Postgres == <<"p","o","s","t","g","r","e","s">>
MySQL == <<"m","y","s","q","l">>

\* ------------------------------------------------------- request parameters

\* A value of request.Parameters (map[string]interface{}): nil (the key is
\* absent), a string, a bool, a float64 (in tenths: n = 25 is 2.5), an array
\* ([]interface{}, its elements in s).
VNil == [t |-> "nil", s |-> <<>>, b |-> FALSE, n |-> 0]
VStr(s) == [t |-> "string", s |-> s, b |-> FALSE, n |-> 0]
VBool(b) == [t |-> "bool", s |-> <<>>, b |-> b, n |-> 0]
VNum(n) == [t |-> "number", s |-> <<>>, b |-> FALSE, n |-> n]
VArr(a) == [t |-> "array", s |-> a, b |-> FALSE, n |-> 0]

ParamNames == {"database", "table", "detailed", "constraint_type", "view",
               "include_definition", "type_name", "schema",
               "include_system_schemas", "limit", "where", "order_by",
               "random", "column", "include_counts", "include_nulls",
               "sql", "params", "isQuery"}

NoParams == [k \in ParamNames |-> VNil]

\* v.(string) with ok
IsString(v) == v.t = "string"

\* The optional-parameter idiom of every handler:
\*   x := def; if p != nil { if s, ok := p.(T); ok { x = s } }
OptString(v) == IF v.t = "string" THEN v.s ELSE <<>>
OptBool(v, def) == IF v.t = "bool" THEN v.b ELSE def

\* int(limitParam) of a float64 given in tenths: truncation toward zero.
TruncTenths(n) == IF n >= 0 THEN n \div 10 ELSE -((-n) \div 10)
OptInt(v, def) == IF v.t = "number" THEN TruncTenths(v.n) ELSE def

\* fmt.Sprintf("%d", n)
Digits == <<"0","1","2","3","4","5","6","7","8","9">>
RECURSIVE NatToText(_)
NatToText(n) ==
    IF n < 10 THEN <<Digits[n + 1]>>
    ELSE NatToText(n \div 10) \o <<Digits[(n % 10) + 1]>>
IntToText(n) == IF n < 0 THEN <<"-">> \o NatToText(-n) ELSE NatToText(n)

\* ------------------------------------------------- statistics SQL builders

\* '%s' in a format string: the argument between two single quotes.
Lit(s) == <<SQ>> \o s \o <<SQ>>

\* getPostgresStatsQueries(detailed)
getPostgresStatsQueries(detailed) ==
    LET queries == <<
          <<"SELECT pg_size_pretty(pg_database_size(current_database())) AS database_size;">>,
          <<"SELECT count(*) AS total_connections, ... FROM pg_stat_activity;">>,
          <<"SELECT schemaname, relname AS table_name, ... FROM pg_stat_user_tables ORDER BY pg_total_relation_size(relid) DESC LIMIT 10;">> >>
        detailedQueries == <<
          <<"SELECT schemaname, relname AS table_name, indexrelname AS index_name, ... FROM pg_stat_user_indexes ORDER BY idx_scan DESC LIMIT 10;">>,
          <<"SELECT c.relname AS table_name, ... FROM pg_class c INNER JOIN pg_buffercache b ... LIMIT 10;">>,
          <<"SELECT datname, xact_commit AS commits, ... FROM pg_stat_database WHERE datname = current_database();">> >>
    IN IF detailed THEN queries \o detailedQueries ELSE queries

\* getMySQLStatsQueries(detailed)
getMySQLStatsQueries(detailed) ==
    LET queries == <<
          <<"SELECT table_schema AS database_name, ... FROM information_schema.tables WHERE table_schema = DATABASE() GROUP BY table_schema;">>,
          <<"SHOW STATUS WHERE Variable_name IN ('Threads_connected', 'Threads_running', 'Max_used_connections');">>,
          <<"SELECT table_name, engine, table_rows, ... FROM information_schema.tables WHERE table_schema = DATABASE() ORDER BY (data_length + index_length) DESC LIMIT 10;">> >>
        detailedQueries == <<
          <<"SHOW GLOBAL STATUS WHERE Variable_name LIKE 'Innodb_buffer_pool%';">>,
          <<"SHOW GLOBAL STATUS WHERE Variable_name LIKE 'Qcache%';">>,
          <<"SELECT table_schema, table_name, rows_read, ... FROM information_schema.table_statistics WHERE table_schema = DATABASE() ORDER BY rows_read DESC LIMIT 10;">>,
          <<"SELECT table_schema, table_name, index_name, rows_read FROM information_schema.index_statistics WHERE table_schema = DATABASE() ORDER BY rows_read DESC LIMIT 10;">> >>
    IN IF detailed THEN queries \o detailedQueries ELSE queries

\* getPostgresTableStatsQueries(tableName, detailed)
getPostgresTableStatsQueries(tableName, detailed) ==
    LET safeTableName == Replace(tableName, SQ, <<SQ, SQ>>)
        queries == <<
          <<"SELECT pg_size_pretty(pg_total_relation_size(">> \o Lit(safeTableName)
            \o <<")) AS total_size, pg_size_pretty(pg_relation_size(">> \o Lit(safeTableName)
            \o <<")) AS table_size, pg_size_pretty(pg_total_relation_size(">> \o Lit(safeTableName)
            \o <<") - pg_relation_size(">> \o Lit(safeTableName)
            \o <<")) AS index_size, n_live_tup AS row_count, n_dead_tup AS dead_tuples FROM pg_stat_user_tables WHERE relname = ">>
            \o Lit(safeTableName) \o <<";">>,
          <<"SELECT a.attname AS column_name, ... FROM pg_catalog.pg_attribute a ... WHERE c.relname = ">>
            \o Lit(safeTableName)
            \o <<" AND a.attnum > 0 AND NOT a.attisdropped AND n.nspname = 'public' ORDER BY a.attnum;">>,
          <<"SELECT i.relname AS index_name, ... FROM pg_stat_user_indexes ui ... WHERE c.relname = ">>
            \o Lit(safeTableName)
            \o <<" AND n.nspname = 'public' GROUP BY i.relname, ui.idx_scan, ui.idx_tup_read, ui.idx_tup_fetch, a.amname ORDER BY i.relname;">> >>
        detailedQueries == <<
          <<"SELECT seq_scan AS sequential_scans, ... FROM pg_stat_user_tables WHERE relname = ">>
            \o Lit(safeTableName) \o <<";">>,
          <<"SELECT current_database() AS db, schemaname, tblname, ... AND ns.nspname = 'public' AND tbl.relname = ">>
            \o Lit(safeTableName) \o <<" GROUP BY 1,2,3,4,5,6,7,8,9,10 ) AS s ) AS s2 ) AS s3;">> >>
    IN IF detailed THEN queries \o detailedQueries ELSE queries

\* getMySQLTableStatsQueries(tableName, detailed)
getMySQLTableStatsQueries(tableName, detailed) ==
    LET safeTableName == Replace(tableName, BT, <<BT, BT>>)
        queries == <<
          <<"SELECT table_name, engine, table_rows, ... FROM information_schema.tables WHERE table_schema = DATABASE() AND table_name = ">>
            \o Lit(safeTableName) \o <<";">>,
          <<"SELECT column_name, column_type, ... FROM information_schema.columns WHERE table_schema = DATABASE() AND table_name = ">>
            \o Lit(safeTableName) \o <<" ORDER BY ordinal_position;">>,
          <<"SELECT index_name, column_name, ... FROM information_schema.statistics WHERE table_schema = DATABASE() AND table_name = ">>
            \o Lit(safeTableName) \o <<" ORDER BY index_name, seq_in_index;">> >>
        detailedQueries == <<
          <<"SHOW TABLE STATUS LIKE ">> \o Lit(safeTableName) \o <<";">>,
          <<"SELECT index_name, stat_name, stat_value FROM mysql.index_stats WHERE table_name = ">>
            \o Lit(safeTableName) \o <<" ORDER BY index_name, stat_name;">>,
          <<"SELECT table_schema, table_name, rows_read, ... FROM information_schema.table_statistics WHERE table_schema = DATABASE() AND table_name = ">>
            \o Lit(safeTableName) \o <<";">> >>
    IN IF detailed THEN queries \o detailedQueries ELSE queries

\* --------------------------------------------------- describe SQL builders

\* getPostgresIndexesQuery(tableName, detailed)
getPostgresIndexesQuery(tableName, detailed) ==
    <<"SELECT t.relname AS table_name, i.relname AS index_name, a.amname AS index_type, ... AS constraint_type, ... AS column_names">>
    \o (IF detailed
        THEN <<", pg_size_pretty(pg_relation_size(i.oid)) AS index_size, pg_get_indexdef(ix.indexrelid) AS index_definition, ... AS is_partial, ... AS sort_order">>
        ELSE <<>>)
    \o <<" FROM pg_index ix JOIN pg_class i ON i.oid = ix.indexrelid JOIN pg_class t ON t.oid = ix.indrelid JOIN pg_namespace n ON n.oid = t.relnamespace JOIN pg_am a ON a.oid = i.relam, generate_series(0, array_length(ix.indkey, 1) - 1) AS k">>
    \o <<" WHERE n.nspname = 'public'">>
    \o (IF tableName # <<>>
        THEN <<" AND t.relname = ">> \o Lit(Replace(tableName, SQ, <<SQ, SQ>>))
        ELSE <<>>)
    \o <<" GROUP BY t.relname, i.relname, a.amname, ix.indisprimary, ix.indisunique">>
    \o (IF detailed
        THEN <<", i.oid, ix.indexrelid, ix.indpred, a.amname, ix.indoption">>
        ELSE <<>>)
    \o <<" ORDER BY t.relname, i.relname;">>

\* Mutant: the detailed statement has no table filter.
getMySQLIndexesQuery_DetailedUnfiltered(tableName, detailed) ==
    <<"SELECT table_name, index_name, GROUP_CONCAT(column_name ORDER BY seq_in_index) AS column_names, ... AS constraint_type, index_type">>
    \o (IF detailed
        THEN <<", ... AS is_primary, ... AS is_unique, ... AS is_fulltext, ... AS comment">>
        ELSE <<>>)
    \o <<" FROM information_schema.statistics">>
    \o <<" WHERE table_schema = DATABASE()">>
    \o (IF tableName # <<>> /\ ~detailed
        THEN <<" AND table_name = ">> \o Lit(Replace(tableName, BT, <<BT, BT>>))
        ELSE <<>>)
    \o <<" GROUP BY table_name, index_name, non_unique, index_type">>
    \o (IF detailed THEN <<", index_comment">> ELSE <<>>)
    \o <<" ORDER BY table_name, index_name;">>

\* getMySQLIndexesQuery(tableName, detailed)
getMySQLIndexesQuery(tableName, detailed) ==
    <<"SELECT table_name, index_name, GROUP_CONCAT(column_name ORDER BY seq_in_index) AS column_names, ... AS constraint_type, index_type">>
    \o (IF detailed
        THEN <<", ... AS is_primary, ... AS is_unique, ... AS is_fulltext, ... AS comment">>
        ELSE <<>>)
    \o <<" FROM information_schema.statistics">>
    \o <<" WHERE table_schema = DATABASE()">>
    \o (IF tableName # <<>>
        THEN <<" AND table_name = ">> \o Lit(Replace(tableName, BT, <<BT, BT>>))
        ELSE <<>>)
    \o <<" GROUP BY table_name, index_name, non_unique, index_type">>
    \o (IF detailed THEN <<", index_comment">> ELSE <<>>)
    \o <<" ORDER BY table_name, index_name;">>

\* getPostgresConstraintsQuery(tableName, constraintType)
getPostgresConstraintsQuery(tableName, constraintType) ==
    <<"SELECT tc.table_schema, tc.table_name, tc.constraint_name, tc.constraint_type, ... FROM information_schema.table_constraints tc JOIN information_schema.key_column_usage kcu ... LEFT JOIN pg_namespace nsp ...">>
    \o <<" WHERE tc.table_schema = 'public'">>
    \o (IF tableName # <<>>
        THEN <<" AND tc.table_name = ">> \o Lit(Replace(tableName, SQ, <<SQ, SQ>>))
        ELSE <<>>)
    \o (IF constraintType # <<>>
        THEN <<" AND tc.constraint_type = ">> \o Lit(Replace(constraintType, SQ, <<SQ, SQ>>))
        ELSE <<>>)
    \o <<" GROUP BY tc.table_schema, tc.table_name, tc.constraint_name, tc.constraint_type, ... ORDER BY tc.table_name, tc.constraint_name;">>

\* strings.ToUpper on one character, and strings.ToUpper(s)
UpperChar(c) ==
    IF \E i \in 1..Len(Lower) : Lower[i] = c
    THEN Upper[CHOOSE i \in 1..Len(Lower) : Lower[i] = c]
    ELSE c
ToUpper(s) == [i \in 1..Len(s) |-> UpperChar(s[i])]

PrimaryKey == <<"P","R","I","M","A","R","Y"," ","K","E","Y">>
ForeignKey == <<"F","O","R","E","I","G","N"," ","K","E","Y">>
Unique == <<"U","N","I","Q","U","E">>

\* getMySQLConstraintsQuery(tableName, constraintType)
getMySQLConstraintsQuery(tableName, constraintType) ==
    LET mysqlConstraintType ==
            IF ToUpper(constraintType) = PrimaryKey THEN PrimaryKey
            ELSE IF ToUpper(constraintType) = ForeignKey THEN ForeignKey
            ELSE IF ToUpper(constraintType) = Unique THEN Unique
            ELSE constraintType
    IN <<"SELECT tc.table_schema, tc.table_name, tc.constraint_name, ... FROM information_schema.table_constraints tc JOIN information_schema.key_column_usage kcu ...">>
       \o <<" WHERE tc.table_schema = DATABASE()">>
       \o (IF tableName # <<>>
           THEN <<" AND tc.table_name = ">> \o Lit(Replace(tableName, BT, <<BT, BT>>))
           ELSE <<>>)
       \o (IF constraintType # <<>>
           THEN <<" AND tc.constraint_type = ">>
                \o Lit(Replace(mysqlConstraintType, SQ, <<SQ, SQ>>))
           ELSE <<>>)
       \o <<" GROUP BY tc.table_schema, tc.table_name, tc.constraint_name, tc.constraint_type, kcu.referenced_table_name ORDER BY tc.table_name, tc.constraint_name;">>

\* getPostgresViewsQuery(viewName, includeDefinition): the query is built
\* with the definition column and rebuilt without it when it is not wanted.
getPostgresViewsQuery(viewName, includeDefinition) ==
    LET filter == IF viewName # <<>>
                  THEN <<" AND viewname = ">> \o Lit(Replace(viewName, SQ, <<SQ, SQ>>))
                  ELSE <<>>
        tail == <<" ORDER BY schemaname, viewname;">>
        where == <<" FROM pg_catalog.pg_views WHERE schemaname NOT IN ('pg_catalog', 'information_schema')">>
    IN IF includeDefinition
       THEN <<"SELECT schemaname AS schema_name, viewname AS view_name, definition AS view_definition">>
            \o where \o filter \o tail
       ELSE <<"SELECT schemaname AS schema_name, viewname AS view_name, 'Definition not included' AS view_definition">>
            \o where \o filter \o tail

\* getMySQLViewsQuery(viewName, includeDefinition)
getMySQLViewsQuery(viewName, includeDefinition) ==
    <<"SELECT table_schema AS schema_name, table_name AS view_name">>
    \o (IF includeDefinition
        THEN <<", view_definition">>
        ELSE <<", 'Definition not included' AS view_definition">>)
    \o <<" FROM information_schema.views WHERE table_schema = DATABASE()">>
    \o (IF viewName # <<>>
        THEN <<" AND table_name = ">> \o Lit(Replace(viewName, BT, <<BT, BT>>))
        ELSE <<>>)
    \o <<" ORDER BY table_schema, table_name;">>

\* getPostgresTypesQuery(typeName)
getPostgresTypesQuery(typeName) ==
    <<"SELECT n.nspname AS schema_name, t.typname AS type_name, ... FROM pg_type t JOIN pg_namespace n ON t.typnamespace = n.oid WHERE (t.typtype IN ('e', 'c', 'd', 'r') OR ...) AND n.nspname NOT IN ('pg_catalog', 'information_schema')">>
    \o (IF typeName # <<>>
        THEN <<" AND t.typname = ">> \o Lit(Replace(typeName, SQ, <<SQ, SQ>>))
        ELSE <<>>)
    \o <<" ORDER BY n.nspname, t.typname;">>

\* Mutant: a schema name filter takes the place of the exclusion of the
\* system schemas.
getPostgresSchemasQuery_FilterOnly(schemaName, includeSystemSchemas) ==
    <<"SELECT n.nspname AS schema_name, ... FROM pg_catalog.pg_namespace n">>
    \o (IF schemaName # <<>>
        THEN <<" WHERE n.nspname = ">> \o Lit(Replace(schemaName, SQ, <<SQ, SQ>>))
        ELSE IF ~includeSystemSchemas
        THEN <<" WHERE n.nspname NOT IN (", "'pg_catalog'", ", ", "'information_schema'", ", ", "'pg_toast'", ", ", "'pg_temp_1'", ", ", "'pg_toast_temp_1'", ")">>
        ELSE <<>>)
    \o <<" ORDER BY n.nspname;">>

\* getPostgresSchemasQuery(schemaName, includeSystemSchemas)
getPostgresSchemasQuery(schemaName, includeSystemSchemas) ==
    <<"SELECT n.nspname AS schema_name, ... FROM pg_catalog.pg_namespace n">>
    \o (IF ~includeSystemSchemas
        THEN <<" WHERE n.nspname NOT IN (", "'pg_catalog'", ", ", "'information_schema'", ", ", "'pg_toast'", ", ", "'pg_temp_1'", ", ", "'pg_toast_temp_1'", ")">>
        ELSE <<>>)
    \o (IF schemaName # <<>>
        THEN (IF ~includeSystemSchemas
              THEN <<" AND n.nspname = ">>
              ELSE <<" WHERE n.nspname = ">>)
             \o Lit(Replace(schemaName, SQ, <<SQ, SQ>>))
        ELSE <<>>)
    \o <<" ORDER BY n.nspname;">>

\* getMySQLSchemasQuery(schemaName)
getMySQLSchemasQuery(schemaName) ==
    <<"SELECT schema_name, default_character_set_name AS character_set, ... FROM information_schema.schemata s">>
    \o (IF schemaName # <<>>
        THEN <<" WHERE schema_name = ">> \o Lit(Replace(schemaName, SQ, <<SQ, SQ>>))
        ELSE <<>>)
    \o <<" ORDER BY schema_name;">>

\* --------------------------------------------- sampling SQL builders

\* Mutant: the name is wrapped as it is, its quote characters not doubled.
QuoteIdent_NotDoubled(dbType, name) ==
    IF ToLower(dbType) = Postgres
    THEN <<DQ>> \o name \o <<DQ>>
    ELSE <<BT>> \o name \o <<BT>>

\* The identifier quoting of buildSampleDataQuery and buildUniqueValuesQuery:
\* double quotes for postgres, backquotes for every other dbType.
QuoteIdent(dbType, name) ==
    IF ToLower(dbType) = Postgres
    THEN <<DQ>> \o Replace(name, DQ, <<DQ, DQ>>) \o <<DQ>>
    ELSE <<BT>> \o Replace(name, BT, <<BT, BT>>) \o <<BT>>

\* Mutant: the order_by fragment comes first, random only without it.
buildSampleDataQuery_OrderByFirst(dbType, tableName, limit, whereClause, orderByClause, random) ==
    <<"SELECT * FROM ">> \o QuoteIdent(dbType, tableName)
    \o (IF whereClause # <<>> THEN <<" WHERE ">> \o whereClause ELSE <<>>)
    \o (IF orderByClause # <<>>
        THEN <<" ORDER BY ">> \o orderByClause
        ELSE IF random
        THEN (IF ToLower(dbType) = Postgres
              THEN <<" ORDER BY RANDOM()">>
              ELSE <<" ORDER BY RAND()">>)
        ELSE <<>>)
    \o <<" LIMIT ">> \o IntToText(limit)

\* Mutant: RAND() for every dbType.
buildSampleDataQuery_RandAlways(dbType, tableName, limit, whereClause, orderByClause, random) ==
    <<"SELECT * FROM ">> \o QuoteIdent(dbType, tableName)
    \o (IF whereClause # <<>> THEN <<" WHERE ">> \o whereClause ELSE <<>>)
    \o (IF random
        THEN <<" ORDER BY RAND()">>
        ELSE IF orderByClause # <<>>
        THEN <<" ORDER BY ">> \o orderByClause
        ELSE <<>>)
    \o <<" LIMIT ">> \o IntToText(limit)

\* buildSampleDataQuery(dbType, tableName, limit, whereClause, orderByClause, random)
buildSampleDataQuery(dbType, tableName, limit, whereClause, orderByClause, random) ==
    <<"SELECT * FROM ">> \o QuoteIdent(dbType, tableName)
    \o (IF whereClause # <<>> THEN <<" WHERE ">> \o whereClause ELSE <<>>)
    \o (IF random
        THEN (IF ToLower(dbType) = Postgres
              THEN <<" ORDER BY RANDOM()">>
              ELSE <<" ORDER BY RAND()">>)
        ELSE IF orderByClause # <<>>
        THEN <<" ORDER BY ">> \o orderByClause
        ELSE <<>>)
    \o <<" LIMIT ">> \o IntToText(limit)

\* Mutant: column IS NOT NULL always comes with its own WHERE.
buildUniqueValuesQuery_SecondWhere(dbType, tableName, columnName, limit, whereClause, includeCounts, includeNulls) ==
    LET safeTableName == QuoteIdent(dbType, tableName)
        safeColumnName == QuoteIdent(dbType, columnName)
    IN (IF includeCounts
        THEN <<"SELECT ">> \o safeColumnName
             \o <<", COUNT(*) AS count, ROUND(COUNT(*) * 100.0 / (SELECT COUNT(*) FROM ">>
             \o safeTableName \o <<"), 2) AS percentage FROM ">> \o safeTableName
        ELSE <<"SELECT DISTINCT ">> \o safeColumnName \o <<" FROM ">> \o safeTableName)
       \o (IF whereClause # <<>> THEN <<" WHERE ">> \o whereClause ELSE <<>>)
       \o (IF ~includeNulls
           THEN <<" WHERE ">> \o safeColumnName \o <<" IS NOT NULL">>
           ELSE <<>>)
       \o (IF includeCounts
           THEN <<" GROUP BY ">> \o safeColumnName \o <<" ORDER BY COUNT(*) DESC">>
           ELSE <<" ORDER BY ">> \o safeColumnName)
       \o <<" LIMIT ">> \o IntToText(limit)

\* Mutant: the statement without counts is grouped as the one with counts is.
buildUniqueValuesQuery_AlwaysGrouped(dbType, tableName, columnName, limit, whereClause, includeCounts, includeNulls) ==
    LET safeTableName == QuoteIdent(dbType, tableName)
        safeColumnName == QuoteIdent(dbType, columnName)
    IN (IF includeCounts
        THEN <<"SELECT ">> \o safeColumnName
             \o <<", COUNT(*) AS count, ROUND(COUNT(*) * 100.0 / (SELECT COUNT(*) FROM ">>
             \o safeTableName \o <<"), 2) AS percentage FROM ">> \o safeTableName
        ELSE <<"SELECT DISTINCT ">> \o safeColumnName \o <<" FROM ">> \o safeTableName)
       \o (IF whereClause # <<>> THEN <<" WHERE ">> \o whereClause ELSE <<>>)
       \o (IF ~includeNulls
           THEN (IF whereClause = <<>>
                 THEN <<" WHERE ">> \o safeColumnName \o <<" IS NOT NULL">>
                 ELSE <<" AND ">> \o safeColumnName \o <<" IS NOT NULL">>)
           ELSE <<>>)
       \o <<" GROUP BY ">> \o safeColumnName
       \o (IF includeCounts
           THEN <<" ORDER BY COUNT(*) DESC">>
           ELSE <<" ORDER BY ">> \o safeColumnName)
       \o <<" LIMIT ">> \o IntToText(limit)

\* buildUniqueValuesQuery(dbType, tableName, columnName, limit, whereClause,
\*                        includeCounts, includeNulls)
buildUniqueValuesQuery(dbType, tableName, columnName, limit, whereClause, includeCounts, includeNulls) ==
    LET safeTableName == QuoteIdent(dbType, tableName)
        safeColumnName == QuoteIdent(dbType, columnName)
    IN (IF includeCounts
        THEN <<"SELECT ">> \o safeColumnName
             \o <<", COUNT(*) AS count, ROUND(COUNT(*) * 100.0 / (SELECT COUNT(*) FROM ">>
             \o safeTableName \o <<"), 2) AS percentage FROM ">> \o safeTableName
        ELSE <<"SELECT DISTINCT ">> \o safeColumnName \o <<" FROM ">> \o safeTableName)
       \o (IF whereClause # <<>> THEN <<" WHERE ">> \o whereClause ELSE <<>>)
       \o (IF ~includeNulls
           THEN (IF whereClause = <<>>
                 THEN <<" WHERE ">> \o safeColumnName \o <<" IS NOT NULL">>
                 ELSE <<" AND ">> \o safeColumnName \o <<" IS NOT NULL">>)
           ELSE <<>>)
       \o (IF includeCounts
           THEN <<" GROUP BY ">> \o safeColumnName \o <<" ORDER BY COUNT(*) DESC">>
           ELSE <<" ORDER BY ">> \o safeColumnName)
       \o <<" LIMIT ">> \o IntToText(limit)

\* ---------------------------------------------------------- the sql tool

\* strings.TrimSpace: the white space at both ends is removed.
WhiteSpace == {" ", "\t", "\n", "\r"}
RECURSIVE TrimLeft(_)
TrimLeft(s) ==
    IF s # <<>> /\ Head(s) \in WhiteSpace THEN TrimLeft(Tail(s)) ELSE s
RECURSIVE TrimRight(_)
TrimRight(s) ==
    IF s # <<>> /\ s[Len(s)] \in WhiteSpace
    THEN TrimRight(SubSeq(s, 1, Len(s) - 1)) ELSE s
TrimSpace(s) == TrimRight(TrimLeft(s))

\* strings.HasPrefix
HasPrefix(s, prefix) ==
    Len(s) >= Len(prefix) /\ SubSeq(s, 1, Len(prefix)) = prefix

\* The keywords of the auto-detection.
QueryKeywords == {<<"S", "E", "L", "E", "C", "T">>,
                  <<"S", "H", "O", "W">>,
                  <<"D", "E", "S", "C", "R", "I", "B", "E">>,
                  <<"E", "X", "P", "L", "A", "I", "N">>}

\* Mutant: the comparison is case-sensitive (no strings.ToUpper).
AutoDetectIsQuery_CaseSensitive(sql) ==
    \E k \in QueryKeywords : HasPrefix(TrimSpace(sql), k)

\* sqlUpper := strings.TrimSpace(strings.ToUpper(sql)); isQuery is whether
\* sqlUpper has one of the keywords as a prefix.
AutoDetectIsQuery(sql) ==
    LET sqlUpper == TrimSpace(ToUpper(sql))
    IN \E k \in QueryKeywords : HasPrefix(sqlUpper, k)

\* Mutant: an isQuery parameter that is not a bool is taken as absent.
IsQuery_NonBoolAutoDetects(p) ==
    IF p.isQuery.t = "bool" THEN p.isQuery.b ELSE AutoDetectIsQuery(p.sql.s)

\* isQuery := false; a bool isQuery parameter sets it, any other non-nil
\* value leaves it false, nil auto-detects.
IsQuery(p) ==
    IF p.isQuery.t # "nil"
    THEN (IF p.isQuery.t = "bool" THEN p.isQuery.b ELSE FALSE)
    ELSE AutoDetectIsQuery(p.sql.s)

\* sqlParams ([]interface{}): nil unless the params parameter is an array.
NilParams == [isNil |-> TRUE, items |-> <<>>]
SqlParams(p) ==
    IF p.params.t = "array" THEN [isNil |-> FALSE, items |-> p.params.s]
    ELSE NilParams

\* Mutant: everything goes to ExecuteQuery.
Executor_AlwaysQuery(p) == "ExecuteQuery"

\* The executor GenericSQLTool.HandleRequest calls.
Executor(p) == IF IsQuery(p) THEN "ExecuteQuery" ELSE "ExecuteStatement"

\* ------------------------------------------------------------- handlers

\* What a handler does after a step of pure computation: return an error,
\* return a response, or run the statements of queries.
PlanError(msg) == [kind |-> "error", text |-> msg, queries |-> <<>>]
PlanResponse(text) == [kind |-> "response", text |-> text, queries |-> <<>>]
PlanQueries(qs) == [kind |-> "queries", text |-> <<>>, queries |-> qs]
PlanOK == PlanQueries(<<>>)

\* Mutant: only an absent parameter is refused; one of another type passes.
RequireStrings_AbsentOnly(p, names) ==
    IF \E i \in 1..Len(names) : p[names[i]].t = "nil"
    THEN PlanError(<<names[CHOOSE i \in 1..Len(names) :
                            /\ p[names[i]].t = "nil"
                            /\ \A j \in 1..(i - 1) : p[names[j]].t # "nil"],
                     " parameter must be a string">>)
    ELSE PlanOK

\* The check of the required parameters, in the order of the handler:
\*   x, ok := request.Parameters[name].(string); if !ok { return nil, error }
RECURSIVE RequireStrings(_, _)
RequireStrings(p, names) ==
    IF names = <<>> THEN PlanOK
    ELSE IF ~IsString(p[Head(names)])
    THEN PlanError(<<Head(names), " parameter must be a string">>)
    ELSE RequireStrings(p, Tail(names))

DbStatsTool_Params(p) == RequireStrings(p, <<"database">>)
TableStatsTool_Params(p) == RequireStrings(p, <<"database", "table">>)
GetIndexesTool_Params(p) == RequireStrings(p, <<"database">>)
GetConstraintsTool_Params(p) == RequireStrings(p, <<"database">>)
GetViewsTool_Params(p) == RequireStrings(p, <<"database">>)
GetTypesTool_Params(p) == RequireStrings(p, <<"database">>)
GetSchemasTool_Params(p) == RequireStrings(p, <<"database">>)
GetSampleDataTool_Params(p) == RequireStrings(p, <<"database", "table">>)
GetUniqueValuesTool_Params(p) == RequireStrings(p, <<"database", "table", "column">>)
GenericSQLTool_Params(p) == RequireStrings(p, <<"sql", "database">>)

\* The switch on strings.ToLower(dbType) of each handler.
DbStatsTool_Switch(p, dbType) ==
    LET detailed == OptBool(p.detailed, FALSE)
    IN IF ToLower(dbType) = Postgres THEN PlanQueries(getPostgresStatsQueries(detailed))
       ELSE IF ToLower(dbType) = MySQL THEN PlanQueries(getMySQLStatsQueries(detailed))
       ELSE PlanError(<<"unsupported database type for statistics: ">> \o dbType)

TableStatsTool_Switch(p, dbType) ==
    LET tableName == p.table.s
        detailed == OptBool(p.detailed, FALSE)
    IN IF ToLower(dbType) = Postgres
       THEN PlanQueries(getPostgresTableStatsQueries(tableName, detailed))
       ELSE IF ToLower(dbType) = MySQL
       THEN PlanQueries(getMySQLTableStatsQueries(tableName, detailed))
       ELSE PlanError(<<"unsupported database type for table statistics: ">> \o dbType)

GetIndexesTool_Switch(p, dbType) ==
    LET tableName == OptString(p.table)
        detailed == OptBool(p.detailed, FALSE)
    IN IF ToLower(dbType) = Postgres
       THEN PlanQueries(<<getPostgresIndexesQuery(tableName, detailed)>>)
       ELSE IF ToLower(dbType) = MySQL
       THEN PlanQueries(<<getMySQLIndexesQuery(tableName, detailed)>>)
       ELSE PlanError(<<"unsupported database type for indexes: ">> \o dbType)

\* Mutant: the switch without its default case, mysql being the else branch.
GetConstraintsTool_Switch_NoDefault(p, dbType) ==
    LET tableName == OptString(p.table)
        constraintType == OptString(p.constraint_type)
    IN IF ToLower(dbType) = Postgres
       THEN PlanQueries(<<getPostgresConstraintsQuery(tableName, constraintType)>>)
       ELSE PlanQueries(<<getMySQLConstraintsQuery(tableName, constraintType)>>)

GetConstraintsTool_Switch(p, dbType) ==
    LET tableName == OptString(p.table)
        constraintType == OptString(p.constraint_type)
    IN IF ToLower(dbType) = Postgres
       THEN PlanQueries(<<getPostgresConstraintsQuery(tableName, constraintType)>>)
       ELSE IF ToLower(dbType) = MySQL
       THEN PlanQueries(<<getMySQLConstraintsQuery(tableName, constraintType)>>)
       ELSE PlanError(<<"unsupported database type for constraints: ">> \o dbType)

\* Mutant: include_definition defaults to false.
GetViewsTool_Switch_DefinitionOff(p, dbType) ==
    LET viewName == OptString(p.view)
        includeDefinition == OptBool(p.include_definition, FALSE)
    IN IF ToLower(dbType) = Postgres
       THEN PlanQueries(<<getPostgresViewsQuery(viewName, includeDefinition)>>)
       ELSE IF ToLower(dbType) = MySQL
       THEN PlanQueries(<<getMySQLViewsQuery(viewName, includeDefinition)>>)
       ELSE PlanError(<<"unsupported database type for views: ">> \o dbType)

GetViewsTool_Switch(p, dbType) ==
    LET viewName == OptString(p.view)
        includeDefinition == OptBool(p.include_definition, TRUE)
    IN IF ToLower(dbType) = Postgres
       THEN PlanQueries(<<getPostgresViewsQuery(viewName, includeDefinition)>>)
       ELSE IF ToLower(dbType) = MySQL
       THEN PlanQueries(<<getMySQLViewsQuery(viewName, includeDefinition)>>)
       ELSE PlanError(<<"unsupported database type for views: ">> \o dbType)

MySQLTypesNotice == <<"MySQL does not support custom data types in the same way as PostgreSQL. It only has built-in data types.">>

\* Mutant: the mysql case falls through to the only builder there is.
GetTypesTool_Switch_MySQLQuery(p, dbType) ==
    LET typeName == OptString(p.type_name)
    IN IF ToLower(dbType) = Postgres \/ ToLower(dbType) = MySQL
       THEN PlanQueries(<<getPostgresTypesQuery(typeName)>>)
       ELSE PlanError(<<"unsupported database type for custom data types: ">> \o dbType)

GetTypesTool_Switch(p, dbType) ==
    LET typeName == OptString(p.type_name)
    IN IF ToLower(dbType) = Postgres
       THEN PlanQueries(<<getPostgresTypesQuery(typeName)>>)
       ELSE IF ToLower(dbType) = MySQL
       THEN PlanResponse(MySQLTypesNotice)
       ELSE PlanError(<<"unsupported database type for custom data types: ">> \o dbType)

GetSchemasTool_Switch(p, dbType) ==
    LET schemaName == OptString(p.schema)
        includeSystemSchemas == OptBool(p.include_system_schemas, FALSE)
    IN IF ToLower(dbType) = Postgres
       THEN PlanQueries(<<getPostgresSchemasQuery(schemaName, includeSystemSchemas)>>)
       ELSE IF ToLower(dbType) = MySQL
       THEN PlanQueries(<<getMySQLSchemasQuery(schemaName)>>)
       ELSE PlanError(<<"unsupported database type for schemas: ">> \o dbType)

\* GetSampleDataTool and GetUniqueValuesTool have no switch: the builder is
\* called with whatever dbType the collaborator answered.
GetSampleDataTool_Switch(p, dbType) ==
    PlanQueries(<<buildSampleDataQuery(dbType, p.table.s, OptInt(p.limit, 10),
                    OptString(p.where), OptString(p.order_by),
                    OptBool(p.random, FALSE))>>)

GetUniqueValuesTool_Switch(p, dbType) ==
    PlanQueries(<<buildUniqueValuesQuery(dbType, p.table.s, p.column.s,
                    OptInt(p.limit, 100), OptString(p.where),
                    OptBool(p.include_counts, TRUE),
                    OptBool(p.include_nulls, TRUE))>>)

\* The heading each handler writes before the result(s).
DbStatsTool_Heading(p, dbType) ==
    <<"# Database Statistics for ">> \o p.database.s \o <<" (">> \o dbType \o <<")\n\n">>

TableStatsTool_Heading(p, dbType) ==
    <<"# Table Statistics for ">> \o p.database.s \o <<".">> \o p.table.s \o <<"\n\n">>

GetIndexesTool_Heading(p, dbType) ==
    IF OptString(p.table) = <<>>
    THEN <<"# All Indexes in Database ">> \o p.database.s \o <<"\n\n">>
    ELSE <<"# Indexes for Table ">> \o OptString(p.table) \o <<" in Database ">>
         \o p.database.s \o <<"\n\n">>

GetConstraintsTool_Heading(p, dbType) ==
    LET tableName == OptString(p.table)
        constraintType == OptString(p.constraint_type)
    IN IF tableName = <<>>
       THEN (IF constraintType = <<>>
             THEN <<"# All Constraints in Database ">> \o p.database.s \o <<"\n\n">>
             ELSE <<"# ">> \o constraintType \o <<" Constraints in Database ">>
                  \o p.database.s \o <<"\n\n">>)
       ELSE (IF constraintType = <<>>
             THEN <<"# All Constraints for Table ">> \o tableName \o <<" in Database ">>
                  \o p.database.s \o <<"\n\n">>
             ELSE <<"# ">> \o constraintType \o <<" Constraints for Table ">> \o tableName
                  \o <<" in Database ">> \o p.database.s \o <<"\n\n">>)

GetViewsTool_Heading(p, dbType) ==
    IF OptString(p.view) = <<>>
    THEN <<"# All Views in Database ">> \o p.database.s \o <<"\n\n">>
    ELSE <<"# View Definition for ">> \o OptString(p.view) \o <<" in Database ">>
         \o p.database.s \o <<"\n\n">>

GetTypesTool_Heading(p, dbType) ==
    IF OptString(p.type_name) = <<>>
    THEN <<"# All Custom Data Types in Database ">> \o p.database.s \o <<"\n\n">>
    ELSE <<"# Custom Data Type Definition for ">> \o OptString(p.type_name)
         \o <<" in Database ">> \o p.database.s \o <<"\n\n">>

GetSchemasTool_Heading(p, dbType) ==
    IF OptString(p.schema) = <<>>
    THEN <<"# All Schemas in Database ">> \o p.database.s \o <<"\n\n">>
    ELSE <<"# Schema Information for ">> \o OptString(p.schema) \o <<" in Database ">>
         \o p.database.s \o <<"\n\n">>

GetSampleDataTool_Heading(p, dbType) ==
    <<"# Sample Data from Table ">> \o p.table.s \o <<" in Database ">>
    \o p.database.s \o <<"\n\n">>

GetUniqueValuesTool_Heading(p, dbType) ==
    <<"# Unique Values in Column ">> \o p.column.s \o <<" of Table ">> \o p.table.s
    \o <<" in Database ">> \o p.database.s \o <<"\n\n">>

\* The tools, by the name their constructor gives them.
StatsTools == {"db_stats", "table_stats"}
SingleTools == {"get_indexes", "get_constraints", "get_views", "get_types",
                "get_schemas", "get_sample_data", "get_unique_values"}
Tools == StatsTools \cup SingleTools
\* The handlers with required parameters: those and the sql tool.
ParamTools == Tools \cup {"sql"}

Params(tool, p) ==
    CASE tool = "db_stats" -> DbStatsTool_Params(p)
      [] tool = "table_stats" -> TableStatsTool_Params(p)
      [] tool = "get_indexes" -> GetIndexesTool_Params(p)
      [] tool = "get_constraints" -> GetConstraintsTool_Params(p)
      [] tool = "get_views" -> GetViewsTool_Params(p)
      [] tool = "get_types" -> GetTypesTool_Params(p)
      [] tool = "get_schemas" -> GetSchemasTool_Params(p)
      [] tool = "get_sample_data" -> GetSampleDataTool_Params(p)
      [] tool = "get_unique_values" -> GetUniqueValuesTool_Params(p)
      [] tool = "sql" -> GenericSQLTool_Params(p)

Switch(tool, p, dbType) ==
    CASE tool = "db_stats" -> DbStatsTool_Switch(p, dbType)
      [] tool = "table_stats" -> TableStatsTool_Switch(p, dbType)
      [] tool = "get_indexes" -> GetIndexesTool_Switch(p, dbType)
      [] tool = "get_constraints" -> GetConstraintsTool_Switch(p, dbType)
      [] tool = "get_views" -> GetViewsTool_Switch(p, dbType)
      [] tool = "get_types" -> GetTypesTool_Switch(p, dbType)
      [] tool = "get_schemas" -> GetSchemasTool_Switch(p, dbType)
      [] tool = "get_sample_data" -> GetSampleDataTool_Switch(p, dbType)
      [] tool = "get_unique_values" -> GetUniqueValuesTool_Switch(p, dbType)

Heading(tool, p, dbType) ==
    CASE tool = "db_stats" -> DbStatsTool_Heading(p, dbType)
      [] tool = "table_stats" -> TableStatsTool_Heading(p, dbType)
      [] tool = "get_indexes" -> GetIndexesTool_Heading(p, dbType)
      [] tool = "get_constraints" -> GetConstraintsTool_Heading(p, dbType)
      [] tool = "get_views" -> GetViewsTool_Heading(p, dbType)
      [] tool = "get_types" -> GetTypesTool_Heading(p, dbType)
      [] tool = "get_schemas" -> GetSchemasTool_Heading(p, dbType)
      [] tool = "get_sample_data" -> GetSampleDataTool_Heading(p, dbType)
      [] tool = "get_unique_values" -> GetUniqueValuesTool_Heading(p, dbType)

\* fmt.Errorf("failed to get ...: %w", err) of the single-statement handlers.
ExecErrorPrefix(tool) ==
    CASE tool = "get_indexes" -> <<"failed to get indexes: ">>
      [] tool = "get_constraints" -> <<"failed to get constraints: ">>
      [] tool = "get_views" -> <<"failed to get views: ">>
      [] tool = "get_types" -> <<"failed to get custom data types: ">>
      [] tool = "get_schemas" -> <<"failed to get schemas: ">>
      [] tool = "get_sample_data" -> <<"failed to get sample data: ">>
      [] tool = "get_unique_values" -> <<"failed to get unique values: ">>

\* fmt.Errorf("failed to get database type: %w", err)
WrapDatabaseTypeError(err) == <<"failed to get database type: ">> \o err

\* What HandleRequest returns: (interface{}, error).
RetNone == [hasResp |-> FALSE, resp |-> <<>>, hasErr |-> FALSE, err |-> <<>>]
RetError(msg) == [hasResp |-> FALSE, resp |-> <<>>, hasErr |-> TRUE, err |-> msg]
\* return createTextResponse(text), nil
RetResponse(text) == [hasResp |-> TRUE, resp |-> text, hasErr |-> FALSE, err |-> <<>>]

\* Mutant: a failed statement is logged and skipped, nothing is written.
StatsSection_ErrorDropped(query, out) ==
    IF out.ok THEN out.text \o <<"\n\n">> ELSE <<>>

\* One pass of the loop body of the statistics handlers: what is written to
\* results for a statement and its outcome.
StatsSection(query, out) ==
    IF out.ok
    THEN out.text \o <<"\n\n">>
    ELSE <<"Error executing query: ">> \o query \o <<"\n">> \o out.text \o <<"\n\n">>

\* ListDatabasesTool.HandleRequest: the header of the report.
ListDatabasesHeader ==
    <<"Available databases:\n\n",
      "| # | Database ID | Type | Host | Port | Database Name | Description |\n",
      "|---|------------|------|------|------|--------------|-------------|\n">>

\* The row of an ID whose GetDatabaseInfo failed, n being i+1.
UnknownRow(n, dbID) ==
    <<"| ">> \o IntToText(n) \o <<" | ">> \o dbID
        \o <<" | Unknown | Unknown | Unknown | Unknown | Unknown |\n">>

\* dbInfo (map[string]interface{}): the entries the handler reads.
Info(database, description) == [database |-> database, description |-> description]
NoInfo == Info(VNil, VNil)

\* The row of an ID: type (Unknown when empty), host and port (placeholders),
\* dbInfo["database"].(string) or Unknown, dbInfo["description"].(string) or "".
DatabaseRow(n, dbID, dbType, info) ==
    LET type == IF dbType = <<>> THEN <<"Unknown">> ELSE dbType
        host == <<"Unknown">>
        port == <<"Unknown">>
        name == IF IsString(info.database) THEN info.database.s ELSE <<"Unknown">>
        description == IF IsString(info.description) THEN info.description.s ELSE <<>>
    IN <<"| ">> \o IntToText(n) \o <<" | ">> \o dbID \o <<" | ">> \o type
        \o <<" | ">> \o host \o <<" | ">> \o port \o <<" | ">> \o name
        \o <<" | ">> \o description \o <<" |\n">>

\* ------------------------------------------------------------ the state

VARIABLES
    \* One invocation of a tool's HandleRequest:
    pc,        \* where the handler is: "idle", "HandleRequest" (called, not
               \* yet run), "GetDatabaseType" / "ExecuteQuery" (waiting for
               \* the collaborator), "done" (returned)
    req,       \* its arguments: [tool, params (request.Parameters), dbID]
    dbType,    \* the local dbType
    queries,   \* the statements to run (queries, or the one query)
    idx,       \* the index in queries of the statement being run
    results,   \* the strings.Builder of the statistics handlers
    ret,       \* what the handler returned
    log,       \* the calls made to the UseCaseProvider and their returns
    ctxDone,   \* whether ctx has been cancelled
    databases, \* list_databases: the IDs useCase.ListDatabases() returned
    dbInfo,    \* list_databases: the dbInfo of the row being written
    \* The connection registry of pkg/dbtools:
    configs,      \* the map configs
    mutexWriter,  \* configMutex: the goroutine holding it for writing, or 0
    mutexReaders, \* configMutex: the goroutines holding it for reading
    mutexPending, \* configMutex: the goroutine whose Lock() waits for the
                  \* readers to leave, or 0
    gpc,          \* each goroutine's position in the registry function it runs
    garg,         \* each goroutine's argument (a config or an ID)
    gret,         \* what the goroutine's GetDatabaseConfig returned
    registered,   \* history: for each ID, the config of the last
                  \* RegisterDatabaseConfig call that took the lock, if any
    calls,        \* history: the configs RegisterDatabaseConfig was called with
    prev          \* history: an earlier invocation of a handler, with its
                  \* parameters, the collaborator's answers and its return

hvars == <<pc, req, dbType, queries, idx, results, ret, log, ctxDone,
           databases, dbInfo>>
rvars == <<configs, mutexWriter, mutexReaders, mutexPending, gpc, garg, gret,
           registered, calls>>
vars == <<pc, req, dbType, queries, idx, results, ret, log, ctxDone,
          databases, dbInfo,
          configs, mutexWriter, mutexReaders, mutexPending, gpc, garg, gret,
          registered, calls, prev>>

\* --------------------------------------------- the collaborator's answers

\* The texts a collaborator may answer: results, and errors.  GetDatabaseType
\* fails with either error, ExecuteQuery with the first.
ResultTexts == {<<"rows-1">>, <<"rows-2">>}
ErrTexts == {<<"connection refused">>, <<"database not found">>}
QueryErrTexts == {<<"connection refused">>}

\* (text, error) as a collaborator returns it.
Ok(text) == [ok |-> TRUE, text |-> text]
Err(text) == [ok |-> FALSE, text |-> text]

\* What ExecuteQuery may answer.
QueryAnswers == {Ok(t) : t \in ResultTexts} \cup {Err(e) : e \in QueryErrTexts}

\* The dbType values GetDatabaseType may answer: the two supported dialects
\* in several spellings, another dialect, and the empty string.
DbTypeAnswers == {Postgres, MySQL,
                  <<"P","o","s","t","g","r","e","s">>,
                  <<"M","Y","S","Q","L">>,
                  <<"s","q","l","i","t","e">>,
                  <<>>}

\* What GetDatabaseType may answer to list_databases, which reads both
\* results: a dbType and a nil error, or the empty dbType and an error.
DbTypeResults ==
    {[dbType |-> a, out |-> Ok(a)] : a \in DbTypeAnswers}
        \cup {[dbType |-> <<>>, out |-> Err(e)] : e \in ErrTexts}

\* What ListDatabases and GetDatabaseInfo may answer.
DatabaseLists == {<<>>, <<<<"db1">>>>, <<<<"db2">>, <<"db1">>>>}
DbInfos == {Info(VStr(<<"shop">>), VStr(<<"orders">>)), Info(VNil, VNum(10))}

\* ------------------------------------------------------------- requests

DbIDs == {<<"db1">>, <<"db2">>}
\* An ID no connection has: the collaborator answers it with an error.
UnknownDbIDs == {<<"db3">>}
TableNames == {<<"t">>, <<"o", SQ, "k", BT>>}
\* The table and column names given to the sampling tools: those and one
\* with double quotes.
IdentNames == TableNames \cup {<<DQ, "a", DQ, "b">>}

\* The values tried for the database parameter: an ID, absent, not a string.
DatabaseValues == {VStr(d) : d \in DbIDs \cup UnknownDbIDs} \cup {VNil, VNum(10)}

With(p, k, v) == [p EXCEPT ![k] = v]

\* The raw fragments a caller gives as where and order_by, each one piece of
\* text, and the values tried for limit: absent, 3, 2.5, and a string.
WhereFragment == <<"x > 1">>
OrderByFragment == <<"id DESC">>
LimitValues == {VNil, VNum(30), VNum(25), VStr(<<"5">>)}

RequestParams(tool) ==
    LET base == {With(NoParams, "database", d) : d \in DatabaseValues}
        names == {VStr(t) : t \in TableNames}
        idents == {VStr(t) : t \in IdentNames}
    IN CASE tool = "db_stats" ->
              {With(b, "detailed", d) : b \in base,
                    d \in {VNil, VBool(TRUE), VBool(FALSE), VStr(<<"y">>)}}
         [] tool = "table_stats" ->
              {With(With(b, "table", t), "detailed", d) : b \in base,
                    t \in names \cup {VNil}, d \in {VNil, VBool(TRUE)}}
         [] tool = "get_indexes" ->
              {With(With(b, "table", t), "detailed", d) : b \in base,
                    t \in names \cup {VNil}, d \in {VNil, VBool(TRUE)}}
         [] tool = "get_constraints" ->
              {With(With(b, "table", t), "constraint_type", c) : b \in base,
                    t \in names \cup {VNil}, c \in {VNil, VStr(<<"u","n","i","q","u","e">>)}}
         [] tool = "get_views" ->
              {With(With(b, "view", t), "include_definition", d) : b \in base,
                    t \in names \cup {VNil}, d \in {VNil, VBool(FALSE)}}
         [] tool = "get_types" ->
              {With(b, "type_name", t) : b \in base, t \in names \cup {VNil}}
         [] tool = "get_schemas" ->
              {With(With(b, "schema", t), "include_system_schemas", d) : b \in base,
                    t \in names \cup {VNil}, d \in {VNil, VBool(TRUE), VBool(FALSE)}}
         [] tool = "get_sample_data" ->
              {With(With(With(b, "table", t), "limit", l), "random", r) : b \in base,
                    t \in idents \cup {VNil}, l \in {VNil, VNum(25)},
                    r \in {VNil, VBool(TRUE)}}
              \cup {[NoParams EXCEPT !.database = VStr(<<"db1">>), !.table = VStr(<<"t">>),
                                     !.limit = l, !.where = w, !.order_by = o, !.random = r] :
                    l \in LimitValues, w \in {VNil, VStr(WhereFragment)},
                    o \in {VNil, VStr(OrderByFragment)},
                    r \in {VNil, VBool(TRUE), VBool(FALSE)}}
         [] tool = "get_unique_values" ->
              {With(With(With(b, "table", t), "column", c), "include_counts", d) :
                    b \in base, t \in idents \cup {VNum(10)}, c \in idents \cup {VNil},
                    d \in {VNil, VBool(FALSE)}}
              \cup {[NoParams EXCEPT !.database = VStr(<<"db1">>), !.table = VStr(<<"t">>),
                                     !.column = VStr(<<"o", SQ, "k", BT>>),
                                     !.limit = l, !.where = w, !.include_counts = c,
                                     !.include_nulls = n] :
                    l \in {VNil, VNum(30)}, w \in {VNil, VStr(WhereFragment)},
                    c \in {VNil, VBool(TRUE), VBool(FALSE)},
                    n \in {VNil, VBool(TRUE), VBool(FALSE)}}

\* The SQL texts given to the sql tool, character by character.
SqlTexts == {<<"S", "E", "L", "E", "C", "T", " ", "1">>,
             <<"s", "e", "l", "e", "c", "t", " ", "1">>,
             <<" ", "\n", "\t", "S", "e", "l", "e", "c", "t", " ", "1", " ">>,
             <<"s", "h", "o", "w", " ", "t", "a", "b", "l", "e", "s">>,
             <<"D", "e", "s", "c", "r", "i", "b", "e", " ", "t">>,
             <<"E", "X", "P", "L", "A", "I", "N", " ", "x">>,
             <<"U", "P", "D", "A", "T", "E", " ", "t", " ", "S", "E", "T", " ", "x", "=", "1">>,
             <<"i", "n", "s", "e", "r", "t">>,
             <<"D", "e", "l", "e", "t", "e">>,
             <<"W", "I", "T", "H", " ", "a">>,
             <<>>,
             <<"s", "e", "l", "e", "c">>,
             <<"S", "E", "L", "E", "C", "T", "E", "D">>,
             <<"x", " ", "S", "E", "L", "E", "C", "T">>}

\* The requests of the sql tool.
SqlRequestParams ==
    {With(With(With(With(NoParams, "database", d), "sql", q), "isQuery", i), "params", a) :
        d \in {VStr(<<"db1">>), VStr(<<"db3">>), VNil},
        q \in {VStr(t) : t \in SqlTexts} \cup {VNil, VNum(10)},
        i \in {VNil, VBool(TRUE), VBool(FALSE), VStr(<<"true">>)},
        a \in {VNil, VArr(<<"7", "x">>), VStr(<<"7">>)}}

\* The dbID argument of HandleRequest: db2, so that the database parameter
\* names the same connection in some requests and another one in others.
HandlerDbIDs == {<<"db2">>}

Requests ==
    UNION {{[tool |-> t, params |-> p, dbID |-> d] :
                p \in RequestParams(t), d \in HandlerDbIDs} : t \in Tools}
        \cup {[tool |-> "list_databases", params |-> NoParams, dbID |-> d] :
                    d \in HandlerDbIDs}
        \cup {[tool |-> "sql", params |-> p, dbID |-> d] :
                    p \in SqlRequestParams, d \in HandlerDbIDs}

\* -------------------------------------------------- the handler's steps

\* An entry of log: a call to the collaborator (ev = "call", with the ctx
\* state it was made under) or its return (ev = "return", with the answer).
CallEvent(fn, db, query) ==
    [ev |-> "call", fn |-> fn, db |-> db, query |-> query, params |-> NilParams,
     ctxDone |-> ctxDone, ok |-> TRUE, text |-> <<>>]
ReturnEvent(fn, db, query, out) ==
    [ev |-> "return", fn |-> fn, db |-> db, query |-> query, params |-> NilParams,
     ctxDone |-> ctxDone, ok |-> out.ok, text |-> out.text]

\* The transport calls HandleRequest(ctx, request, dbID, useCase).
Invoke(r) ==
    /\ pc = "idle"
    /\ pc' = "HandleRequest"
    /\ req' = r
    /\ UNCHANGED <<dbType, queries, idx, results, ret, log, ctxDone>>
    /\ UNCHANGED <<databases, dbInfo>>
    /\ UNCHANGED rvars
    /\ UNCHANGED prev

\* The caller cancels ctx, at any moment of the invocation.
Cancel ==
    /\ pc \in {"HandleRequest", "GetDatabaseType", "ExecuteQuery",
              "ExecuteStatement", "ListDatabases", "GetDatabaseInfo"}
    /\ ~ctxDone
    /\ ctxDone' = TRUE
    /\ UNCHANGED <<pc, req, dbType, queries, idx, results, ret, log>>
    /\ UNCHANGED <<databases, dbInfo>>
    /\ UNCHANGED rvars
    /\ UNCHANGED prev

\* HandleRequest up to its first call: a required parameter is missing or
\* is not a string, and the handler returns the error.
HandleRequest_BadParams ==
    /\ pc = "HandleRequest"
    /\ req.tool \in ParamTools
    /\ Params(req.tool, req.params).kind = "error"
    /\ ret' = RetError(Params(req.tool, req.params).text)
    /\ pc' = "done"
    /\ UNCHANGED <<req, dbType, queries, idx, results, log, ctxDone>>
    /\ UNCHANGED <<databases, dbInfo>>
    /\ UNCHANGED rvars
    /\ UNCHANGED prev

\* HandleRequest up to its first call: the parameters are read and
\* useCase.GetDatabaseType(targetDbID) is called.
HandleRequest_Begin ==
    /\ pc = "HandleRequest"
    /\ req.tool \in Tools
    /\ Params(req.tool, req.params).kind # "error"
    /\ log' = Append(log, CallEvent("GetDatabaseType", req.params.database.s, <<>>))
    /\ pc' = "GetDatabaseType"
    /\ UNCHANGED <<req, dbType, queries, idx, results, ret, ctxDone>>
    /\ UNCHANGED <<databases, dbInfo>>
    /\ UNCHANGED rvars
    /\ UNCHANGED prev

\* Mutant: the error of GetDatabaseType is ignored (dbType, _ := ...), and
\* the handler goes on with the empty dbType.
GetDatabaseType_Error_Ignored(err) ==
    LET plan == Switch(req.tool, req.params, <<>>)
        returned == ReturnEvent("GetDatabaseType", req.params.database.s, <<>>, Err(err))
    IN
    /\ pc = "GetDatabaseType"
    /\ req.tool \in Tools
    /\ dbType' = <<>>
    /\ IF plan.kind = "error"
       THEN /\ ret' = RetError(plan.text)
            /\ pc' = "done"
            /\ log' = Append(log, returned)
            /\ UNCHANGED <<queries, idx, results>>
       ELSE /\ queries' = plan.queries
            /\ idx' = 1
            /\ results' = <<>>
            /\ log' = log \o <<returned,
                               CallEvent("ExecuteQuery", req.params.database.s,
                                         plan.queries[1])>>
            /\ pc' = "ExecuteQuery"
            /\ UNCHANGED ret
    /\ UNCHANGED <<req, ctxDone>>
    /\ UNCHANGED <<databases, dbInfo>>
    /\ UNCHANGED rvars
    /\ UNCHANGED prev

\* GetDatabaseType returns an error: return nil, fmt.Errorf(...%w, err).
GetDatabaseType_Error(err) ==
    /\ pc = "GetDatabaseType"
    /\ req.tool \in Tools
    /\ log' = Append(log, ReturnEvent("GetDatabaseType", req.params.database.s, <<>>, Err(err)))
    /\ ret' = RetError(WrapDatabaseTypeError(err))
    /\ pc' = "done"
    /\ UNCHANGED <<req, dbType, queries, idx, results, ctxDone>>
    /\ UNCHANGED <<databases, dbInfo>>
    /\ UNCHANGED rvars
    /\ UNCHANGED prev

\* Mutant: the statement is executed on the handler's own dbID argument.
GetDatabaseType_OK_HandlerDbID(answer) ==
    LET plan == Switch(req.tool, req.params, answer)
        returned == ReturnEvent("GetDatabaseType", req.params.database.s, <<>>, Ok(answer))
    IN
    /\ pc = "GetDatabaseType"
    /\ req.tool \in Tools
    /\ req.params.database.s \notin UnknownDbIDs
    /\ dbType' = answer
    /\ IF plan.kind = "error"
       THEN /\ ret' = RetError(plan.text)
            /\ pc' = "done"
            /\ log' = Append(log, returned)
            /\ UNCHANGED <<queries, idx, results>>
       ELSE IF plan.kind = "response"
       THEN /\ ret' = RetResponse(plan.text)
            /\ pc' = "done"
            /\ log' = Append(log, returned)
            /\ UNCHANGED <<queries, idx, results>>
       ELSE /\ queries' = plan.queries
            /\ idx' = 1
            /\ results' = IF req.tool \in StatsTools
                          THEN Heading(req.tool, req.params, answer)
                          ELSE <<>>
            /\ log' = log \o <<returned,
                               CallEvent("ExecuteQuery", req.dbID,
                                         plan.queries[1])>>
            /\ pc' = "ExecuteQuery"
            /\ UNCHANGED ret
    /\ UNCHANGED <<req, ctxDone>>
    /\ UNCHANGED <<databases, dbInfo>>
    /\ UNCHANGED rvars
    /\ UNCHANGED prev

\* GetDatabaseType returns answer: the switch on the dialect, then either a
\* return (unsupported dialect, or the notice of get_types for mysql) or the
\* heading and the call of ExecuteQuery for the first statement.
GetDatabaseType_OK(answer) ==
    LET plan == Switch(req.tool, req.params, answer)
        returned == ReturnEvent("GetDatabaseType", req.params.database.s, <<>>, Ok(answer))
    IN
    /\ pc = "GetDatabaseType"
    /\ req.tool \in Tools
    /\ req.params.database.s \notin UnknownDbIDs
    /\ dbType' = answer
    /\ IF plan.kind = "error"
       THEN /\ ret' = RetError(plan.text)
            /\ pc' = "done"
            /\ log' = Append(log, returned)
            /\ UNCHANGED <<queries, idx, results>>
       ELSE IF plan.kind = "response"
       THEN /\ ret' = RetResponse(plan.text)
            /\ pc' = "done"
            /\ log' = Append(log, returned)
            /\ UNCHANGED <<queries, idx, results>>
       ELSE /\ queries' = plan.queries
            /\ idx' = 1
            /\ results' = IF req.tool \in StatsTools
                          THEN Heading(req.tool, req.params, answer)
                          ELSE <<>>
            /\ log' = log \o <<returned,
                               CallEvent("ExecuteQuery", req.params.database.s,
                                         plan.queries[1])>>
            /\ pc' = "ExecuteQuery"
            /\ UNCHANGED ret
    /\ UNCHANGED <<req, ctxDone>>
    /\ UNCHANGED <<databases, dbInfo>>
    /\ UNCHANGED rvars
    /\ UNCHANGED prev

\* Mutant: a failed statement ends the call (return nil, err) instead of
\* being written inline.
StatsTool_ExecuteQueryReturn_Abort(out) ==
    LET section == StatsSection(queries[idx], out)
        returned == ReturnEvent("ExecuteQuery", req.params.database.s, queries[idx], out)
    IN
    /\ pc = "ExecuteQuery"
    /\ req.tool \in StatsTools
    /\ IF ~out.ok
       THEN /\ log' = Append(log, returned)
            /\ ret' = RetError(out.text)
            /\ pc' = "done"
            /\ UNCHANGED <<idx, results>>
       ELSE IF idx < Len(queries)
       THEN /\ results' = results \o section
            /\ idx' = idx + 1
            /\ log' = log \o <<returned,
                               CallEvent("ExecuteQuery", req.params.database.s,
                                         queries[idx + 1])>>
            /\ UNCHANGED <<pc, ret>>
       ELSE /\ results' = results \o section
            /\ log' = Append(log, returned)
            /\ ret' = RetResponse(results')
            /\ pc' = "done"
            /\ UNCHANGED idx
    /\ UNCHANGED <<req, dbType, queries, ctxDone>>
    /\ UNCHANGED <<databases, dbInfo>>
    /\ UNCHANGED rvars
    /\ UNCHANGED prev

\* The loop of DbStatsTool and TableStatsTool: ExecuteQuery returns out for
\* statement idx; its section is written (the result, or the inline error
\* and continue), then the next statement is executed or, after the last,
\* the report is returned.
StatsTool_ExecuteQueryReturn(out) ==
    LET section == StatsSection(queries[idx], out)
        returned == ReturnEvent("ExecuteQuery", req.params.database.s, queries[idx], out)
    IN
    /\ pc = "ExecuteQuery"
    /\ req.tool \in StatsTools
    /\ results' = results \o section
    /\ IF idx < Len(queries)
       THEN /\ idx' = idx + 1
            /\ log' = log \o <<returned,
                               CallEvent("ExecuteQuery", req.params.database.s,
                                         queries[idx + 1])>>
            /\ UNCHANGED <<pc, ret>>
       ELSE /\ log' = Append(log, returned)
            /\ ret' = RetResponse(results')
            /\ pc' = "done"
            /\ UNCHANGED idx
    /\ UNCHANGED <<req, dbType, queries, ctxDone>>
    /\ UNCHANGED <<databases, dbInfo>>
    /\ UNCHANGED rvars
    /\ UNCHANGED prev

\* Mutant: the error of the statement is written into the report, as the
\* statistics handlers do, and the report is returned.
SingleTool_ExecuteQueryReturn_Inline(out) ==
    /\ pc = "ExecuteQuery"
    /\ req.tool \in SingleTools
    /\ log' = Append(log, ReturnEvent("ExecuteQuery", req.params.database.s, queries[idx], out))
    /\ ret' = RetResponse(Heading(req.tool, req.params, dbType)
                          \o (IF out.ok THEN <<>> ELSE <<"Error: ">>) \o out.text)
    /\ pc' = "done"
    /\ UNCHANGED <<req, dbType, queries, idx, results, ctxDone>>
    /\ UNCHANGED <<databases, dbInfo>>
    /\ UNCHANGED rvars
    /\ UNCHANGED prev

\* The single-statement handlers: ExecuteQuery returns out; an error is
\* returned wrapped, a result is returned under the heading.
SingleTool_ExecuteQueryReturn(out) ==
    /\ pc = "ExecuteQuery"
    /\ req.tool \in SingleTools
    /\ log' = Append(log, ReturnEvent("ExecuteQuery", req.params.database.s, queries[idx], out))
    /\ ret' = IF out.ok
              THEN RetResponse(Heading(req.tool, req.params, dbType) \o out.text)
              ELSE RetError(ExecErrorPrefix(req.tool) \o out.text)
    /\ pc' = "done"
    /\ UNCHANGED <<req, dbType, queries, idx, results, ctxDone>>
    /\ UNCHANGED <<databases, dbInfo>>
    /\ UNCHANGED rvars
    /\ UNCHANGED prev

\* GenericSQLTool.HandleRequest up to its call: the parameters are read, the
\* statement is classified, and ExecuteQuery or ExecuteStatement is called
\* with targetDbID, sql and sqlParams.
GenericSQLTool_Begin ==
    /\ pc = "HandleRequest"
    /\ req.tool = "sql"
    /\ Params(req.tool, req.params).kind # "error"
    /\ log' = Append(log, [CallEvent(Executor(req.params), req.params.database.s,
                                     req.params.sql.s)
                              EXCEPT !.params = SqlParams(req.params)])
    /\ pc' = Executor(req.params)
    /\ UNCHANGED <<req, dbType, queries, idx, results, ret, ctxDone>>
    /\ UNCHANGED <<databases, dbInfo>>
    /\ UNCHANGED rvars
    /\ UNCHANGED prev

\* Mutant: the executor's error is returned as the text of a response.
GenericSQLTool_ExecuteReturn_ErrorAsText(out) ==
    /\ pc \in {"ExecuteQuery", "ExecuteStatement"}
    /\ req.tool = "sql"
    /\ req.params.database.s \in UnknownDbIDs => ~out.ok
    /\ log' = Append(log, [ReturnEvent(pc, req.params.database.s, req.params.sql.s, out)
                              EXCEPT !.params = SqlParams(req.params)])
    /\ ret' = RetResponse(out.text)
    /\ pc' = "done"
    /\ UNCHANGED <<req, dbType, queries, idx, results, ctxDone>>
    /\ UNCHANGED <<databases, dbInfo>>
    /\ UNCHANGED rvars
    /\ UNCHANGED prev

\* The executor returns out: if err != nil { return nil, err }, otherwise
\* return createTextResponse(result), nil.  A connection that does not exist
\* is answered with an error.
GenericSQLTool_ExecuteReturn(out) ==
    /\ pc \in {"ExecuteQuery", "ExecuteStatement"}
    /\ req.tool = "sql"
    /\ req.params.database.s \in UnknownDbIDs => ~out.ok
    /\ log' = Append(log, [ReturnEvent(pc, req.params.database.s, req.params.sql.s, out)
                              EXCEPT !.params = SqlParams(req.params)])
    /\ ret' = IF out.ok THEN RetResponse(out.text) ELSE RetError(out.text)
    /\ pc' = "done"
    /\ UNCHANGED <<req, dbType, queries, idx, results, ctxDone>>
    /\ UNCHANGED <<databases, dbInfo>>
    /\ UNCHANGED rvars
    /\ UNCHANGED prev

\* ListDatabasesTool.HandleRequest up to its first call:
\* databases := useCase.ListDatabases().
ListDatabasesTool_Begin ==
    /\ pc = "HandleRequest"
    /\ req.tool = "list_databases"
    /\ log' = Append(log, CallEvent("ListDatabases", <<>>, <<>>))
    /\ pc' = "ListDatabases"
    /\ UNCHANGED <<req, dbType, queries, idx, results, ret, ctxDone, databases, dbInfo>>
    /\ UNCHANGED rvars
    /\ UNCHANGED prev

\* The end of one turn of the loop of ListDatabasesTool, output being the
\* text so far, returned the return just logged: the next ID's
\* GetDatabaseInfo is called or, after the last, the report is returned.
ListDatabasesTool_NextRow(output, returned) ==
    /\ results' = output
    /\ IF idx < Len(databases)
       THEN /\ idx' = idx + 1
            /\ log' = log \o <<returned,
                               CallEvent("GetDatabaseInfo", databases[idx + 1], <<>>)>>
            /\ pc' = "GetDatabaseInfo"
            /\ UNCHANGED ret
       ELSE /\ log' = Append(log, returned)
            /\ ret' = RetResponse(output)
            /\ pc' = "done"
            /\ UNCHANGED idx

\* ListDatabases returns ids: the header is written; with no ID the report
\* says so and is returned, otherwise the loop starts with GetDatabaseInfo.
ListDatabasesTool_ListDatabasesReturn(ids) ==
    LET returned == ReturnEvent("ListDatabases", <<>>, <<>>, Ok(<<>>))
    IN
    /\ pc = "ListDatabases"
    /\ databases' = ids
    /\ IF ids = <<>>
       THEN /\ results' = ListDatabasesHeader \o <<"No databases configured.\n">>
            /\ ret' = RetResponse(results')
            /\ log' = Append(log, returned)
            /\ pc' = "done"
            /\ UNCHANGED idx
       ELSE /\ results' = ListDatabasesHeader
            /\ idx' = 1
            /\ log' = log \o <<returned, CallEvent("GetDatabaseInfo", ids[1], <<>>)>>
            /\ pc' = "GetDatabaseInfo"
            /\ UNCHANGED ret
    /\ UNCHANGED <<req, dbType, queries, ctxDone, dbInfo>>
    /\ UNCHANGED rvars
    /\ UNCHANGED prev

\* Mutant: the error of GetDatabaseInfo ends the loop; the report so far,
\* with the row of Unknown, is returned.
ListDatabasesTool_GetDatabaseInfoError_Break(err) ==
    /\ pc = "GetDatabaseInfo"
    /\ results' = results \o UnknownRow(idx, databases[idx])
    /\ log' = Append(log, ReturnEvent("GetDatabaseInfo", databases[idx], <<>>, Err(err)))
    /\ ret' = RetResponse(results')
    /\ pc' = "done"
    /\ UNCHANGED <<req, dbType, queries, idx, ctxDone, databases, dbInfo>>
    /\ UNCHANGED rvars
    /\ UNCHANGED prev

\* GetDatabaseInfo returns an error: the row of Unknown, and continue.
ListDatabasesTool_GetDatabaseInfoError(err) ==
    /\ pc = "GetDatabaseInfo"
    /\ ListDatabasesTool_NextRow(
           results \o UnknownRow(idx, databases[idx]),
           ReturnEvent("GetDatabaseInfo", databases[idx], <<>>, Err(err)))
    /\ UNCHANGED <<req, dbType, queries, ctxDone, databases, dbInfo>>
    /\ UNCHANGED rvars
    /\ UNCHANGED prev

\* GetDatabaseInfo returns info: dbType, _ := useCase.GetDatabaseType(dbID).
ListDatabasesTool_GetDatabaseInfoOK(info) ==
    /\ pc = "GetDatabaseInfo"
    /\ dbInfo' = info
    /\ log' = log \o <<ReturnEvent("GetDatabaseInfo", databases[idx], <<>>, Ok(<<>>)),
                       CallEvent("GetDatabaseType", databases[idx], <<>>)>>
    /\ pc' = "GetDatabaseType"
    /\ UNCHANGED <<req, dbType, queries, idx, results, ret, ctxDone, databases>>
    /\ UNCHANGED rvars
    /\ UNCHANGED prev

\* GetDatabaseType returns (answer, out): the error, if any, is dropped, and
\* the row is written with the type (Unknown when it is empty), the
\* placeholders for host and port, and the name and description of dbInfo.
ListDatabasesTool_GetDatabaseTypeReturn(answer, out) ==
    /\ pc = "GetDatabaseType"
    /\ req.tool = "list_databases"
    /\ dbType' = answer
    /\ ListDatabasesTool_NextRow(
           results \o DatabaseRow(idx, databases[idx], answer, dbInfo),
           ReturnEvent("GetDatabaseType", databases[idx], <<>>, out))
    /\ UNCHANGED <<req, queries, ctxDone, databases, dbInfo>>
    /\ UNCHANGED rvars
    /\ UNCHANGED prev

\* Mutant: on its way out the handler drops the connection it was asked
\* about from the registry.
Return_Unregisters ==
    /\ pc = "done"
    /\ pc' = "idle"
    /\ req' = [tool |-> "", params |-> NoParams, dbID |-> <<>>]
    /\ dbType' = <<>>
    /\ queries' = <<>>
    /\ idx' = 0
    /\ results' = <<>>
    /\ ret' = RetNone
    /\ log' = <<>>
    /\ ctxDone' = FALSE
    /\ databases' = <<>>
    /\ dbInfo' = NoInfo
    /\ configs' = [k \in DOMAIN configs \ {req.params.database.s} |-> configs[k]]
    /\ UNCHANGED <<mutexWriter, mutexReaders, mutexPending, gpc, garg, gret,
                   registered, calls>>
    /\ UNCHANGED prev

\* The invocation is over; the handler keeps nothing.
Return ==
    /\ pc = "done"
    /\ pc' = "idle"
    /\ req' = [tool |-> "", params |-> NoParams, dbID |-> <<>>]
    /\ dbType' = <<>>
    /\ queries' = <<>>
    /\ idx' = 0
    /\ results' = <<>>
    /\ ret' = RetNone
    /\ log' = <<>>
    /\ ctxDone' = FALSE
    /\ databases' = <<>>
    /\ dbInfo' = NoInfo
    /\ UNCHANGED rvars
    /\ UNCHANGED prev

\* The answers the collaborator gave during an invocation, in order.
Answers(l) ==
    LET returns == SelectSeq(l, LAMBDA e : e.ev = "return")
    IN [i \in 1..Len(returns) |-> [ok |-> returns[i].ok, text |-> returns[i].text]]

NoPrev == [set |-> FALSE, tool |-> "", params |-> NoParams, answers |-> <<>>,
           ret |-> RetNone]

\* History: the invocation that has just returned is kept, to be compared
\* with a later one.
Remember ==
    /\ pc = "done"
    /\ prev' = [set |-> TRUE, tool |-> req.tool, params |-> req.params,
                answers |-> Answers(log), ret |-> ret]
    /\ prev' # prev
    /\ UNCHANGED hvars
    /\ UNCHANGED rvars

\* ------------------------------------------------ the connection registry

\* DatabaseConnectionConfig, and its zero value DatabaseConnectionConfig{}.
Config(id, type, host, port, user, password, name, description) ==
    [ID |-> id, Type |-> type, Host |-> host, Port |-> port, User |-> user,
     Password |-> password, Name |-> name, Description |-> description]
EmptyConfig == Config(<<>>, <<>>, <<>>, 0, <<>>, <<>>, <<>>, <<>>)

\* The configurations registered in a run: two for db1, one for db2.
\* db3 is never registered.
RegConfigs ==
    {Config(<<"db1">>, Postgres, <<"pg-host">>, 5432, <<"alice">>, <<"pw-a">>, <<"sales">>, <<"first">>),
     Config(<<"db1">>, MySQL, <<"my-host">>, 3306, <<"bob">>, <<"pw-b">>, <<"stock">>, <<"second">>),
     Config(<<"db2">>, MySQL, <<"my-host">>, 3307, <<"carol">>, <<"pw-c">>, <<"hr">>, <<"third">>)}
ConfigIDs == {<<"db1">>, <<"db2">>, <<"db3">>}

Goroutines == 1..NumProcs

\* Mutant: an ID already in the map keeps its slot as it is (insert-if-absent).
MapAssign_KeepFirst(m, config) ==
    IF config.ID \in DOMAIN m THEN m
    ELSE [k \in DOMAIN m \cup {config.ID} |-> IF k = config.ID THEN config ELSE m[k]]

\* configs[config.ID] = config, the whole assignment.
MapAssign(m, config) ==
    [k \in DOMAIN m \cup {config.ID} |-> IF k = config.ID THEN config ELSE m[k]]

\* The same assignment part-way: the struct is copied into the map's slot
\* field by field, and here only the first fields have been written.
MapAssignPartial(m, config) ==
    LET old == IF config.ID \in DOMAIN m THEN m[config.ID] ELSE EmptyConfig
        half == [old EXCEPT !.ID = config.ID, !.Type = config.Type,
                            !.Host = config.Host, !.Port = config.Port]
    IN [k \in DOMAIN m \cup {config.ID} |-> IF k = config.ID THEN half ELSE m[k]]

\* What GetDatabaseConfig returns: (DatabaseConnectionConfig, error).
GetResult(config, hasErr, err) == [config |-> config, hasErr |-> hasErr, err |-> err]
NoResult == GetResult(EmptyConfig, FALSE, <<>>)

\* Mutant: return configs[id], nil (the zero value for a missing ID, no error).
LookupConfig_NoError(m, id) ==
    GetResult(IF id \in DOMAIN m THEN m[id] ELSE EmptyConfig, FALSE, <<>>)

\* config, ok := configs[id]; if !ok { return DatabaseConnectionConfig{}, error }
\* return config, nil
LookupConfig(m, id) ==
    IF id \in DOMAIN m
    THEN GetResult(m[id], FALSE, <<>>)
    ELSE GetResult(EmptyConfig, TRUE, <<"database configuration not found for ID: ">> \o id)

\* sync.RWMutex: Lock() first shuts out other writers and new readers ...
CanLock == mutexWriter = 0 /\ mutexPending = 0
\* ... and then waits until the readers have left.
CanAcquire == mutexReaders = {}
\* Mutant: the read is not guarded (no RLock).
CanRLock_Unguarded == TRUE
\* Mutant: a plain Mutex in place of the RWMutex, a reader shuts out readers.
CanRLock_Exclusive == mutexWriter = 0 /\ mutexPending = 0 /\ mutexReaders = {}
\* RLock() waits while a writer holds the lock or waits for it.
CanRLock == mutexWriter = 0 /\ mutexPending = 0

\* A goroutine calls RegisterDatabaseConfig(config).
Register_Call(g, config) ==
    /\ gpc[g] \in {"idle", "Get_done"}
    /\ Len(calls) < MaxRegisterCalls
    /\ gpc' = [gpc EXCEPT ![g] = "Register"]
    /\ garg' = [garg EXCEPT ![g] = config]
    /\ gret' = [gret EXCEPT ![g] = NoResult]
    /\ calls' = Append(calls, config)
    /\ UNCHANGED <<configs, mutexWriter, mutexReaders, mutexPending, registered>>
    /\ UNCHANGED hvars
    /\ UNCHANGED prev

\* configMutex.Lock(), first half: the writer announces itself.
Register_Lock(g) ==
    /\ gpc[g] = "Register"
    /\ CanLock
    /\ mutexPending' = g
    /\ gpc' = [gpc EXCEPT ![g] = "Register_wait"]
    /\ UNCHANGED <<configs, mutexWriter, mutexReaders, garg, gret, registered, calls>>
    /\ UNCHANGED hvars
    /\ UNCHANGED prev

\* configMutex.Lock(), second half: the readers have left, the lock is held.
Register_Acquire(g) ==
    /\ gpc[g] = "Register_wait"
    /\ CanAcquire
    /\ mutexPending' = 0
    /\ mutexWriter' = g
    /\ registered' = [registered EXCEPT ![garg[g].ID] = [set |-> TRUE, config |-> garg[g]]]
    /\ gpc' = [gpc EXCEPT ![g] = "Register_store"]
    /\ UNCHANGED <<configs, mutexReaders, garg, gret, calls>>
    /\ UNCHANGED hvars
    /\ UNCHANGED prev

\* configs[config.ID] = config, begun ...
Register_Store(g) ==
    /\ gpc[g] = "Register_store"
    /\ configs' = MapAssignPartial(configs, garg[g])
    /\ gpc' = [gpc EXCEPT ![g] = "Register_stored"]
    /\ UNCHANGED <<mutexWriter, mutexReaders, mutexPending, garg, gret, registered, calls>>
    /\ UNCHANGED hvars
    /\ UNCHANGED prev

\* ... and completed.
Register_Stored(g) ==
    /\ gpc[g] = "Register_stored"
    /\ configs' = MapAssign(configs, garg[g])
    /\ gpc' = [gpc EXCEPT ![g] = "Register_unlock"]
    /\ UNCHANGED <<mutexWriter, mutexReaders, mutexPending, garg, gret, registered, calls>>
    /\ UNCHANGED hvars
    /\ UNCHANGED prev

\* defer configMutex.Unlock(), and the return.
Register_Unlock(g) ==
    /\ gpc[g] = "Register_unlock"
    /\ mutexWriter' = 0
    /\ gpc' = [gpc EXCEPT ![g] = "idle"]
    /\ UNCHANGED <<configs, mutexReaders, mutexPending, garg, gret, registered, calls>>
    /\ UNCHANGED hvars
    /\ UNCHANGED prev

\* A goroutine calls GetDatabaseConfig(id).
Get_Call(g, id) ==
    /\ gpc[g] \in {"idle", "Get_done"}
    /\ gpc' = [gpc EXCEPT ![g] = "Get"]
    /\ garg' = [garg EXCEPT ![g] = [EmptyConfig EXCEPT !.ID = id]]
    /\ gret' = [gret EXCEPT ![g] = NoResult]
    /\ UNCHANGED <<configs, mutexWriter, mutexReaders, mutexPending, registered, calls>>
    /\ UNCHANGED hvars
    /\ UNCHANGED prev

\* configMutex.RLock()
Get_RLock(g) ==
    /\ gpc[g] = "Get"
    /\ CanRLock
    /\ mutexReaders' = mutexReaders \cup {g}
    /\ gpc' = [gpc EXCEPT ![g] = "Get_read"]
    /\ UNCHANGED <<configs, mutexWriter, mutexPending, garg, gret, registered, calls>>
    /\ UNCHANGED hvars
    /\ UNCHANGED prev

\* config, ok := configs[id], and the choice of what to return
Get_Read(g) ==
    /\ gpc[g] = "Get_read"
    /\ gret' = [gret EXCEPT ![g] = LookupConfig(configs, garg[g].ID)]
    /\ gpc' = [gpc EXCEPT ![g] = "Get_unlock"]
    /\ UNCHANGED <<configs, mutexWriter, mutexReaders, mutexPending, garg, registered, calls>>
    /\ UNCHANGED hvars
    /\ UNCHANGED prev

\* defer configMutex.RUnlock(), and the return.
Get_RUnlock(g) ==
    /\ gpc[g] = "Get_unlock"
    /\ mutexReaders' = mutexReaders \ {g}
    /\ gpc' = [gpc EXCEPT ![g] = "Get_done"]
    /\ UNCHANGED <<configs, mutexWriter, mutexPending, garg, gret, registered, calls>>
    /\ UNCHANGED hvars
    /\ UNCHANGED prev

\* ---------------------------------------------------- the specifications

\* The state after construction: no invocation, an empty registry
\* (configs = make(map[string]DatabaseConnectionConfig)), a free mutex.
Init ==
    /\ pc = "idle"
    /\ req = [tool |-> "", params |-> NoParams, dbID |-> <<>>]
    /\ dbType = <<>>
    /\ queries = <<>>
    /\ idx = 0
    /\ results = <<>>
    /\ ret = RetNone
    /\ log = <<>>
    /\ ctxDone = FALSE
    /\ databases = <<>>
    /\ dbInfo = NoInfo
    /\ configs = <<>>
    /\ mutexWriter = 0
    /\ mutexReaders = {}
    /\ mutexPending = 0
    /\ gpc = [g \in Goroutines |-> "idle"]
    /\ garg = [g \in Goroutines |-> EmptyConfig]
    /\ gret = [g \in Goroutines |-> NoResult]
    /\ registered = [id \in ConfigIDs |-> [set |-> FALSE, config |-> EmptyConfig]]
    /\ calls = <<>>
    /\ prev = NoPrev

\* The tool handlers: one invocation after another, each with any request
\* and any answers of the collaborator.
Next ==
    \/ \E r \in Requests : Invoke(r)
    \/ Cancel
    \/ HandleRequest_BadParams
    \/ HandleRequest_Begin
    \/ \E err \in ErrTexts : GetDatabaseType_Error(err)
    \/ \E answer \in DbTypeAnswers : GetDatabaseType_OK(answer)
    \/ \E out \in QueryAnswers : StatsTool_ExecuteQueryReturn(out)
    \/ \E out \in QueryAnswers : SingleTool_ExecuteQueryReturn(out)
    \/ GenericSQLTool_Begin
    \/ \E out \in QueryAnswers : GenericSQLTool_ExecuteReturn(out)
    \/ ListDatabasesTool_Begin
    \/ \E ids \in DatabaseLists : ListDatabasesTool_ListDatabasesReturn(ids)
    \/ \E err \in ErrTexts : ListDatabasesTool_GetDatabaseInfoError(err)
    \/ \E info \in DbInfos : ListDatabasesTool_GetDatabaseInfoOK(info)
    \/ \E r \in DbTypeResults : ListDatabasesTool_GetDatabaseTypeReturn(r.dbType, r.out)
    \/ Return

Spec == Init /\ [][Next]_vars

\* The registry: goroutines calling RegisterDatabaseConfig and
\* GetDatabaseConfig concurrently.
NextRegistry ==
    \/ \E g \in Goroutines, config \in RegConfigs : Register_Call(g, config)
    \/ \E g \in Goroutines : Register_Lock(g)
    \/ \E g \in Goroutines : Register_Acquire(g)
    \/ \E g \in Goroutines : Register_Store(g)
    \/ \E g \in Goroutines : Register_Stored(g)
    \/ \E g \in Goroutines : Register_Unlock(g)
    \/ \E g \in Goroutines, id \in ConfigIDs : Get_Call(g, id)
    \/ \E g \in Goroutines : Get_RLock(g)
    \/ \E g \in Goroutines : Get_Read(g)
    \/ \E g \in Goroutines : Get_RUnlock(g)

SpecRegistry == Init /\ [][NextRegistry]_vars

\* One invocation after another against a registry filled at startup, each
\* invocation remembered or not.  The registry is the one a sequence of
\* RegisterDatabaseConfig calls leaves behind.
RECURSIVE RegistryAfter(_)
RegistryAfter(cs) ==
    IF cs = <<>> THEN <<>>
    ELSE MapAssign(RegistryAfter(SubSeq(cs, 1, Len(cs) - 1)), cs[Len(cs)])

StartupCalls == UNION {[1..n -> RegConfigs] : n \in 0..MaxRegisterCalls}

HandlerInit ==
    /\ pc = "idle"
    /\ req = [tool |-> "", params |-> NoParams, dbID |-> <<>>]
    /\ dbType = <<>>
    /\ queries = <<>>
    /\ idx = 0
    /\ results = <<>>
    /\ ret = RetNone
    /\ log = <<>>
    /\ ctxDone = FALSE
    /\ databases = <<>>
    /\ dbInfo = NoInfo

InitStateless ==
    /\ HandlerInit
    /\ \E cs \in StartupCalls :
          /\ calls = cs
          /\ configs = RegistryAfter(cs)
          /\ registered = [id \in ConfigIDs |->
                IF id \in DOMAIN RegistryAfter(cs)
                THEN [set |-> TRUE, config |-> RegistryAfter(cs)[id]]
                ELSE [set |-> FALSE, config |-> EmptyConfig]]
    /\ mutexWriter = 0
    /\ mutexReaders = {}
    /\ mutexPending = 0
    /\ gpc = [g \in Goroutines |-> "idle"]
    /\ garg = [g \in Goroutines |-> EmptyConfig]
    /\ gret = [g \in Goroutines |-> NoResult]
    /\ prev = NoPrev

\* The requests and answers of these invocations: db_stats and the sql tool,
\* on a good and a missing database parameter.
StatelessRequests ==
    {r \in Requests :
        /\ r.tool \in {"db_stats", "sql"}
        /\ r.params.database \in {VStr(<<"db1">>), VNil}
        /\ r.params.detailed = VNil
        /\ r.params.sql \in {VStr(<<"S", "E", "L", "E", "C", "T", " ", "1">>), VNil}
        /\ r.params.isQuery = VNil
        /\ r.params.params = VNil}
StatelessDbTypes == {MySQL, <<"s","q","l","i","t","e">>}
StatelessAnswers == {Ok(<<"rows-1">>), Err(<<"connection refused">>)}

NextStateless ==
    \/ \E r \in StatelessRequests : Invoke(r)
    \/ Cancel
    \/ HandleRequest_BadParams
    \/ HandleRequest_Begin
    \/ \E err \in QueryErrTexts : GetDatabaseType_Error(err)
    \/ \E answer \in StatelessDbTypes : GetDatabaseType_OK(answer)
    \/ \E out \in StatelessAnswers : StatsTool_ExecuteQueryReturn(out)
    \/ GenericSQLTool_Begin
    \/ \E out \in StatelessAnswers : GenericSQLTool_ExecuteReturn(out)
    \/ Remember
    \/ Return

SpecStateless == InitStateless /\ [][NextStateless]_vars

\* Handler invocations and registry calls side by side: goroutines in
\* RegisterDatabaseConfig and GetDatabaseConfig while an invocation of the
\* sql tool, on a known or an unknown connection, waits for its executor.
ConcurrentConfigs == {c \in RegConfigs : c.Type = Postgres}
ConcurrentIDs == {<<"db1">>, <<"db2">>}
ConcurrentRequests ==
    {r \in Requests :
        /\ r.tool = "sql"
        /\ r.params.database \in {VStr(<<"db1">>), VStr(<<"db3">>)}
        /\ r.params.sql = VStr(<<"S", "E", "L", "E", "C", "T", " ", "1">>)
        /\ r.params.isQuery = VNil
        /\ r.params.params = VNil}

NextConcurrent ==
    \/ \E r \in ConcurrentRequests : Invoke(r)
    \/ GenericSQLTool_Begin
    \/ \E out \in StatelessAnswers : GenericSQLTool_ExecuteReturn(out)
    \/ Return
    \/ \E g \in Goroutines, config \in ConcurrentConfigs : Register_Call(g, config)
    \/ \E g \in Goroutines : Register_Lock(g)
    \/ \E g \in Goroutines : Register_Acquire(g)
    \/ \E g \in Goroutines : Register_Store(g)
    \/ \E g \in Goroutines : Register_Stored(g)
    \/ \E g \in Goroutines : Register_Unlock(g)
    \/ \E g \in Goroutines, id \in ConcurrentIDs : Get_Call(g, id)
    \/ \E g \in Goroutines : Get_RLock(g)
    \/ \E g \in Goroutines : Get_Read(g)
    \/ \E g \in Goroutines : Get_RUnlock(g)

SpecConcurrent == Init /\ [][NextConcurrent]_vars

\* ===================================================== the claims: handlers

\* The calls of ExecuteQuery / ExecuteStatement in log, and their returns.
IsExecCall(e) == e.ev = "call" /\ e.fn \in {"ExecuteQuery", "ExecuteStatement"}
IsExecReturn(e) == e.ev = "return" /\ e.fn \in {"ExecuteQuery", "ExecuteStatement"}
IsExecEvent(e) == e.fn \in {"ExecuteQuery", "ExecuteStatement"}
ExecCalls == SelectSeq(log, IsExecCall)
ExecReturns == SelectSeq(log, IsExecReturn)
ExecEvents == SelectSeq(log, IsExecEvent)

\* GetDatabaseType has returned in this invocation, with the dialect a / with
\* the error e.
Resolved(a) ==
    \E k \in 1..Len(log) :
        log[k].ev = "return" /\ log[k].fn = "GetDatabaseType" /\ log[k].ok /\ log[k].text = a
ResolveFailed(e) ==
    \E k \in 1..Len(log) :
        log[k].ev = "return" /\ log[k].fn = "GetDatabaseType" /\ ~log[k].ok /\ log[k].text = e

Supported(a) == ToLower(a) = Postgres \/ ToLower(a) = MySQL

\* The statements the builder of a statistics tool emits for a request.
StatsStatements(r, a) ==
    IF r.tool = "db_stats"
    THEN (IF ToLower(a) = Postgres
          THEN getPostgresStatsQueries(r.params.detailed = VBool(TRUE))
          ELSE getMySQLStatsQueries(r.params.detailed = VBool(TRUE)))
    ELSE (IF ToLower(a) = Postgres
          THEN getPostgresTableStatsQueries(r.params.table.s, r.params.detailed = VBool(TRUE))
          ELSE getMySQLTableStatsQueries(r.params.table.s, r.params.detailed = VBool(TRUE)))

StatsHeading(r, a) ==
    IF r.tool = "db_stats"
    THEN <<"# Database Statistics for ">> \o r.params.database.s \o <<" (">> \o a \o <<")\n\n">>
    ELSE <<"# Table Statistics for ">> \o r.params.database.s \o <<".">>
         \o r.params.table.s \o <<"\n\n">>

\* The section of the report for a statement and the answer it got.
ExpectedSection(statement, e) ==
    IF e.ok
    THEN e.text \o <<"\n\n">>
    ELSE <<"Error executing query: ">> \o statement \o <<"\n">> \o e.text \o <<"\n\n">>

\* The sections for the first n statements, in the order of the statements.
ExpectedSections(statements, returns, n) ==
    Concat([k \in 1..n |-> ExpectedSection(statements[k], returns[k])])

\* C1: when a statistics tool (db_stats, table_stats) has returned for a
\* request whose builder emitted N statements, whatever subset of the N
\* ExecuteQuery calls failed: exactly N ExecuteQuery calls were made, the
\* report is the heading followed by N sections, a failed statement's section
\* being the inline "Error executing query" text and any other its result
\* text, and the handler returned the report with a nil error.
C1_PartialFailure ==
    \A a \in DbTypeAnswers :
        (pc = "done" /\ req.tool \in StatsTools /\ Resolved(a) /\ Supported(a)) =>
            LET statements == StatsStatements(req, a)
                N == Len(statements)
            IN /\ Len(ExecCalls) = N
               /\ Len(ExecReturns) = N
               /\ ret.hasResp /\ ~ret.hasErr
               /\ ret.resp = StatsHeading(req, a) \o ExpectedSections(statements, ExecReturns, N)

\* C1 witness: a statistics report with a failed statement first and a
\* successful one later.
C1_Witness ==
    /\ pc = "done" /\ req.tool \in StatsTools /\ ret.hasResp
    /\ Len(ExecReturns) >= 3
    /\ ~ExecReturns[1].ok /\ ExecReturns[2].ok /\ ~ExecReturns[3].ok

\* C2: at every moment of a statistics call, the ExecuteQuery calls made so
\* far are those for the first statements of the builder's list in its order,
\* each made after the previous one returned (calls and returns alternate in
\* log), and the report so far is the heading followed by the sections of the
\* returned statements in that same order.
C2_BuilderOrder ==
    \A a \in DbTypeAnswers :
        (req.tool \in StatsTools /\ Resolved(a) /\ Supported(a)) =>
            LET statements == StatsStatements(req, a)
                ev == ExecEvents
                n == Len(ExecReturns)
            IN /\ Len(ExecCalls) <= Len(statements)
               /\ \A k \in 1..Len(ev) :
                     /\ ev[k].ev = (IF k % 2 = 1 THEN "call" ELSE "return")
                     /\ ev[k].query = statements[(k + 1) \div 2]
               /\ results = StatsHeading(req, a) \o ExpectedSections(statements, ExecReturns, n)
               /\ pc = "done" => (n = Len(statements) /\ ret.resp = results)

\* C2 witness: a finished table_stats report of five statements whose first
\* two results differ.
C2_Witness ==
    /\ pc = "done" /\ req.tool = "table_stats" /\ ret.hasResp
    /\ Len(ExecReturns) = 5
    /\ ExecReturns[1].ok /\ ExecReturns[2].ok
    /\ ExecReturns[1].text # ExecReturns[2].text

\* C3 (as claimed): once ctx is cancelled part-way through the statements of
\* a statistics call, no further ExecuteQuery call is made: no ExecuteQuery
\* call made under a cancelled ctx follows one made before the cancellation.
C3_NoStatementAfterCancel ==
    req.tool \in StatsTools =>
        \A k \in 1..Len(log) :
            (IsExecCall(log[k]) /\ log[k].ctxDone) =>
                ~\E j \in 1..(k - 1) : IsExecCall(log[j]) /\ ~log[j].ctxDone

\* The tools whose handler switches on the dialect.
SwitchTools == {"db_stats", "table_stats", "get_indexes", "get_constraints",
                "get_views", "get_types", "get_schemas"}

UnsupportedPrefix(tool) ==
    CASE tool = "db_stats" -> <<"unsupported database type for statistics: ">>
      [] tool = "table_stats" -> <<"unsupported database type for table statistics: ">>
      [] tool = "get_indexes" -> <<"unsupported database type for indexes: ">>
      [] tool = "get_constraints" -> <<"unsupported database type for constraints: ">>
      [] tool = "get_views" -> <<"unsupported database type for views: ">>
      [] tool = "get_types" -> <<"unsupported database type for custom data types: ">>
      [] tool = "get_schemas" -> <<"unsupported database type for schemas: ">>
      [] OTHER -> <<"unsupported database type: ">>

\* C7: in db_stats, table_stats, get_indexes, get_constraints, get_views,
\* get_types and get_schemas, once GetDatabaseType has answered a dialect
\* that is, in lower case, neither postgres nor mysql, the handler has
\* returned an unsupported-database-type error naming the dialect, with no
\* response, and no ExecuteQuery or ExecuteStatement call was made.
C7_UnsupportedDialect ==
    \A a \in DbTypeAnswers :
        (req.tool \in SwitchTools /\ Resolved(a) /\ ~Supported(a)) =>
            /\ pc = "done"
            /\ ret = [hasResp |-> FALSE, resp |-> <<>>, hasErr |-> TRUE,
                      err |-> UnsupportedPrefix(req.tool) \o a]
            /\ Len(ExecEvents) = 0

\* C7 witness: get_constraints on a connection whose dialect is sqlite.
C7_Witness ==
    /\ pc = "done" /\ req.tool = "get_constraints"
    /\ Resolved(<<"s","q","l","i","t","e">>)
    /\ ret.hasErr

\* C8 (as claimed): get_sample_data and get_unique_values on a connection
\* whose dialect is neither postgres nor mysql fail with an unsupported-
\* dialect error and make no ExecuteQuery call.
C8_SamplingUnsupportedDialect ==
    \A a \in DbTypeAnswers :
        (req.tool \in {"get_sample_data", "get_unique_values"} /\ Resolved(a) /\ ~Supported(a)) =>
            /\ Len(ExecEvents) = 0
            /\ pc = "done" /\ ret.hasErr /\ ~ret.hasResp

\* Whether a tool that builds SQL by dialect has a builder for a dialect: the
\* sampling tools build for any dialect, get_types only for postgres, the
\* others for postgres and mysql.
HasBuilder(tool, a) ==
    IF tool \in {"get_sample_data", "get_unique_values"} THEN TRUE
    ELSE IF tool = "get_types" THEN ToLower(a) = Postgres
    ELSE Supported(a)

\* C9 (as claimed): for every (tool, dialect) pair without a builder, the
\* tool being one that builds SQL by dialect, the call returns an error, no
\* response, and executes no statement.
C9_NoBuilderIsError ==
    \A a \in DbTypeAnswers :
        (req.tool \in Tools /\ Resolved(a) /\ ~HasBuilder(req.tool, a)) =>
            /\ pc = "done" /\ ret.hasErr /\ ~ret.hasResp
            /\ Len(ExecEvents) = 0

\* C9 (amended): for every (tool, dialect) pair without a builder, the tool
\* being one that builds SQL by dialect, the call executes no statement; it
\* returns an unsupported-database-type error and
\* no response, except get_types on mysql, which returns the fixed notice
\* that MySQL has no custom data types as a response, with a nil error.
C9_NoBuilderNoStatement ==
    \A a \in DbTypeAnswers :
        (req.tool \in Tools /\ Resolved(a) /\ ~HasBuilder(req.tool, a)) =>
            /\ pc = "done"
            /\ Len(ExecEvents) = 0
            /\ IF req.tool = "get_types" /\ ToLower(a) = MySQL
               THEN ret = [hasResp |-> TRUE,
                           resp |-> <<"MySQL does not support custom data types in the same way as PostgreSQL. It only has built-in data types.">>,
                           hasErr |-> FALSE, err |-> <<>>]
               ELSE /\ ret.hasErr /\ ~ret.hasResp
                    /\ ret.err = UnsupportedPrefix(req.tool) \o a

\* C9 witness: get_types on a connection whose dialect is spelled MYSQL has
\* returned a response.
C9_Witness ==
    /\ pc = "done" /\ req.tool = "get_types"
    /\ Resolved(<<"M","Y","S","Q","L">>)
    /\ ret.hasResp /\ ~ret.hasErr

\* C10 (as claimed): in every tool that calls GetDatabaseType, once it has
\* returned an error the handler has returned that error wrapped ("failed to
\* get database type: " followed by it), with no response, and no
\* ExecuteQuery or ExecuteStatement call was made.
C10_ResolveErrorAborts ==
    \A e \in ErrTexts :
        ResolveFailed(e) =>
            /\ pc = "done"
            /\ ret = [hasResp |-> FALSE, resp |-> <<>>, hasErr |-> TRUE,
                      err |-> <<"failed to get database type: ">> \o e]
            /\ Len(ExecEvents) = 0

\* C10 (amended): in the nine tools that resolve the dialect of the
\* connection named by their database parameter, once GetDatabaseType has
\* returned an error the handler has returned that error wrapped, with no
\* response, and no ExecuteQuery or ExecuteStatement call was made;
\* list_databases, which asks the type of each listed connection, drops the
\* error: it never returns an error, executes no statement, goes on with the
\* rows and ends with a response.
C10_ResolveErrorAbortsTargeted ==
    /\ \A e \in ErrTexts :
          (req.tool \in Tools /\ ResolveFailed(e)) =>
              /\ pc = "done"
              /\ ret = [hasResp |-> FALSE, resp |-> <<>>, hasErr |-> TRUE,
                        err |-> <<"failed to get database type: ">> \o e]
              /\ Len(ExecEvents) = 0
    /\ req.tool = "list_databases" =>
          /\ ~ret.hasErr
          /\ Len(ExecEvents) = 0
          /\ pc = "done" => (ret.hasResp /\ ret.resp = results)
          /\ pc \in {"GetDatabaseInfo", "GetDatabaseType"} => idx \in 1..Len(databases)
          /\ pc = "done" => idx = Len(databases)

\* C10 witness: get_unique_values whose GetDatabaseType call failed.
C10_Witness ==
    /\ pc = "done" /\ req.tool = "get_unique_values"
    /\ ResolveFailed(<<"database not found">>)
    /\ ret.hasErr /\ ~ret.hasResp

\* The required parameters of a tool, in the order its handler reads them.
Required(tool) ==
    CASE tool = "sql" -> <<"sql", "database">>
      [] tool \in {"table_stats", "get_sample_data"} -> <<"database", "table">>
      [] tool = "get_unique_values" -> <<"database", "table", "column">>
      [] OTHER -> <<"database">>

\* The required parameters of the request that are missing or not strings.
BadRequired(r) ==
    {i \in 1..Len(Required(r.tool)) : r.params[Required(r.tool)[i]].t # "string"}

\* The request names, with valid parameters, a connection that does not exist.
NamesUnknown(r) ==
    /\ r.tool \in ParamTools
    /\ BadRequired(r) = {}
    /\ r.params.database.s \in UnknownDbIDs

\* C11 (as claimed): in every tool that takes a connection ID, the sql tool
\* included, a call naming an unknown connection makes no ExecuteQuery or
\* ExecuteStatement call, and ends with an error.
C11_UnknownIDNoExecutorCall ==
    NamesUnknown(req) =>
        /\ Len(ExecEvents) = 0
        /\ pc = "done" => (ret.hasErr /\ ~ret.hasResp)

\* C11 (amended): a call naming an unknown connection ends with an error and
\* no response.  In the nine tools that resolve the dialect it is the
\* error of GetDatabaseType, wrapped, and no ExecuteQuery or ExecuteStatement
\* call is made.  The sql tool resolves nothing: it makes its one executor
\* call with the unknown ID, and the error the executor answers is the
\* call's error, as it is.
C11_UnknownIDAborts ==
    NamesUnknown(req) =>
        /\ pc = "done" => (ret.hasErr /\ ~ret.hasResp)
        /\ req.tool \in Tools =>
              /\ Len(ExecEvents) = 0
              /\ pc = "done" =>
                    \E e \in ErrTexts :
                        ret.err = <<"failed to get database type: ">> \o e
        /\ req.tool = "sql" =>
              /\ Len(ExecCalls) = (IF pc = "HandleRequest" THEN 0 ELSE 1)
              /\ \A k \in 1..Len(ExecCalls) : ExecCalls[k].db = req.params.database.s
              /\ pc = "done" =>
                    /\ Len(ExecReturns) = 1
                    /\ ~ExecReturns[1].ok
                    /\ ret.err = ExecReturns[1].text

\* C11 witness: the sql tool has returned the executor's error for an UPDATE
\* on the unknown connection db3.
C11_Witness ==
    /\ pc = "done" /\ req.tool = "sql" /\ NamesUnknown(req)
    /\ Len(ExecCalls) = 1 /\ ExecCalls[1].fn = "ExecuteStatement"
    /\ ExecCalls[1].db = <<"db3">>
    /\ ret.hasErr

\* C12: in every tool with required parameters, when one of them is missing
\* or is not a string, the handler returns the validation error naming the
\* first such parameter ("<name> parameter must be a string"), with no
\* response, and calls no collaborator at all.
C12_ValidationError ==
    (req.tool \in ParamTools /\ BadRequired(req) # {} /\ pc # "HandleRequest") =>
        LET first == CHOOSE i \in BadRequired(req) : \A j \in BadRequired(req) : i <= j
        IN /\ pc = "done"
           /\ ret = [hasResp |-> FALSE, resp |-> <<>>, hasErr |-> TRUE,
                     err |-> <<Required(req.tool)[first], " parameter must be a string">>]
           /\ log = <<>>

\* C12 witness: get_unique_values with a table and a database but no column
\* has returned the error about column.
C12_Witness ==
    /\ pc = "done" /\ req.tool = "get_unique_values"
    /\ req.params.database.t = "string" /\ req.params.table.t = "string"
    /\ req.params.column.t = "nil"
    /\ ret.hasErr /\ ret.err = <<"column", " parameter must be a string">>

\* The sql tool was called with valid required parameters.
SqlCall(r) == r.tool = "sql" /\ BadRequired(r) = {}

\* The text begins, upper and lower case taken as equal, with SELECT, SHOW,
\* DESCRIBE or EXPLAIN.
BeginsWithKeyword(text) ==
    \E k \in {<<"S","E","L","E","C","T">>, <<"S","H","O","W">>,
              <<"D","E","S","C","R","I","B","E">>, <<"E","X","P","L","A","I","N">>} :
        /\ Len(text) >= Len(k)
        /\ \A i \in 1..Len(k) : text[i] \in {k[i], Lower[CHOOSE j \in 1..Len(Upper) : Upper[j] = k[i]]}

\* The text without the white space it starts with.
AfterLeadingSpace(text) ==
    IF \A i \in 1..Len(text) : text[i] \in {" ", "\t", "\n", "\r"} THEN <<>>
    ELSE SubSeq(text,
                CHOOSE i \in 1..Len(text) :
                    /\ text[i] \notin {" ", "\t", "\n", "\r"}
                    /\ \A j \in 1..(i - 1) : text[j] \in {" ", "\t", "\n", "\r"},
                Len(text))

\* C13 (as claimed): with isQuery absent, the sql tool takes the statement
\* for a query (and calls ExecuteQuery) exactly when the SQL text begins,
\* case-insensitively, with SELECT, SHOW, DESCRIBE or EXPLAIN.
C13_QueryIffBeginsWithKeyword ==
    (SqlCall(req) /\ req.params.isQuery.t = "nil" /\ Len(ExecCalls) >= 1) =>
        (ExecCalls[1].fn = "ExecuteQuery" <=> BeginsWithKeyword(req.params.sql.s))

\* C13 (amended): with isQuery absent, the sql tool takes the statement for
\* a query exactly when the SQL text, after the white space it starts with,
\* begins case-insensitively with SELECT, SHOW, DESCRIBE or EXPLAIN (only
\* these characters are looked at: SELECTED counts, WITH does not), and for
\* a mutating statement otherwise, the empty text included.
C13_QueryIffKeywordAfterSpace ==
    (SqlCall(req) /\ req.params.isQuery.t = "nil" /\ Len(ExecCalls) >= 1) =>
        /\ ExecCalls[1].fn \in {"ExecuteQuery", "ExecuteStatement"}
        /\ ExecCalls[1].fn = "ExecuteQuery"
              <=> BeginsWithKeyword(AfterLeadingSpace(req.params.sql.s))

\* C13 witness: a lower-case and indented select, isQuery absent, was sent to
\* ExecuteQuery.
C13_Witness ==
    /\ SqlCall(req) /\ req.params.isQuery.t = "nil"
    /\ req.params.sql.s = <<" ", "\n", "\t", "S", "e", "l", "e", "c", "t", " ", "1", " ">>
    /\ Len(ExecCalls) = 1 /\ ExecCalls[1].fn = "ExecuteQuery"

\* The route of a request of the sql tool: a bool isQuery decides; absent,
\* the beginning of the text decides; any other isQuery means a statement.
ExpectedRoute(r) ==
    IF r.params.isQuery.t = "bool"
    THEN (IF r.params.isQuery.b THEN "ExecuteQuery" ELSE "ExecuteStatement")
    ELSE IF r.params.isQuery.t = "nil"
         /\ BeginsWithKeyword(AfterLeadingSpace(r.params.sql.s))
    THEN "ExecuteQuery"
    ELSE "ExecuteStatement"

\* C14: a call of the sql tool that passes the parameter checks calls one
\* executor once and nothing else: ExecuteQuery for a query, ExecuteStatement
\* for a mutating statement (a bool isQuery deciding whatever the text is),
\* with the database named, the SQL text as given and the params array as
\* given (nil when there is none); and the call returns what that one call
\* answered.
C14_OneExecutorCall ==
    (SqlCall(req) /\ pc # "HandleRequest") =>
        /\ Len(ExecCalls) = 1
        /\ Len(log) = (IF pc = "done" THEN 2 ELSE 1)
        /\ log[1] = ExecCalls[1]
        /\ ExecCalls[1].fn = ExpectedRoute(req)
        /\ ExecCalls[1].db = req.params.database.s
        /\ ExecCalls[1].query = req.params.sql.s
        /\ ExecCalls[1].params =
              (IF req.params.params.t = "array"
               THEN [isNil |-> FALSE, items |-> req.params.params.s]
               ELSE [isNil |-> TRUE, items |-> <<>>])
        /\ pc = "done" =>
              /\ log[2].ev = "return" /\ log[2].fn = ExecCalls[1].fn
              /\ ret = (IF log[2].ok
                        THEN [hasResp |-> TRUE, resp |-> log[2].text,
                              hasErr |-> FALSE, err |-> <<>>]
                        ELSE [hasResp |-> FALSE, resp |-> <<>>,
                              hasErr |-> TRUE, err |-> log[2].text])

\* C14 witness: an UPDATE with isQuery omitted and two params went to
\* ExecuteStatement and returned its result.
C14_Witness ==
    /\ pc = "done" /\ SqlCall(req) /\ req.params.isQuery.t = "nil"
    /\ req.params.sql.s = <<"U","P","D","A","T","E"," ","t"," ","S","E","T"," ","x","=","1">>
    /\ req.params.params.t = "array"
    /\ Len(ExecCalls) = 1 /\ ExecCalls[1].fn = "ExecuteStatement"
    /\ ExecCalls[1].params.items = <<"7", "x">>
    /\ ret.hasResp

\* The calls and returns of GetDatabaseType and of the executors in log.
IsTargetedEvent(e) == e.fn \in {"GetDatabaseType", "ExecuteQuery", "ExecuteStatement"}

\* C15: in an invocation of a tool with a database parameter, every
\* GetDatabaseType, ExecuteQuery and ExecuteStatement call is made with the
\* ID the request names in that parameter, and so never with the handler's
\* dbID argument when that is another connection.
C15_TargetConnection ==
    (req.tool \in ParamTools /\ BadRequired(req) = {}) =>
        \A k \in 1..Len(log) :
            IsTargetedEvent(log[k]) =>
                /\ log[k].db = req.params.database.s
                /\ req.dbID # req.params.database.s => log[k].db # req.dbID

\* C15 witness: get_sample_data for db1, called with the dbID argument db2,
\* has resolved the dialect of db1 and run its statement on db1.
C15_Witness ==
    /\ pc = "done" /\ req.tool = "get_sample_data"
    /\ req.dbID = <<"db2">> /\ req.params.database.s = <<"db1">>
    /\ Len(ExecCalls) = 1 /\ ExecCalls[1].db = <<"db1">>
    /\ \E k \in 1..Len(log) : log[k].fn = "GetDatabaseType" /\ log[k].db = <<"db1">>
    /\ ret.hasResp

\* text holds part as a run of consecutive characters.
Contains(text, part) ==
    \E i \in 1..(Len(text) - Len(part) + 1) : SubSeq(text, i, i + Len(part) - 1) = part

\* The name with each single quote doubled, between two single quotes: the
\* only form in which the name cannot end the literal it is written in.
QuotedLiteral(name) ==
    <<"'">> \o Concat([i \in 1..Len(name) |->
                          IF name[i] = "'" THEN <<"'", "'">> ELSE <<name[i]>>])
            \o <<"'">>

\* The names a describe or statistics request gives, which its builders
\* write inside single-quoted literals.
LiteralNames(r) ==
    LET given(k) == IF r.params[k].t = "string" /\ r.params[k].s # <<>>
                    THEN {r.params[k].s} ELSE {}
    IN CASE r.tool \in {"table_stats", "get_indexes"} -> given("table")
         [] r.tool = "get_constraints" -> given("table")
         [] r.tool = "get_views" -> given("view")
         [] r.tool = "get_types" -> given("type_name")
         [] r.tool = "get_schemas" -> given("schema")
         [] OTHER -> {}

\* C16 (as claimed): every statement a describe or statistics tool executes,
\* in either dialect, holds each name the caller gave as a single-quoted
\* literal in which every single quote of the name is doubled.
C16_LiteralQuoteDoubled ==
    \A k \in 1..Len(log) :
        IsExecCall(log[k]) =>
            \A name \in LiteralNames(req) : Contains(log[k].query, QuotedLiteral(name))

\* The identifier quote of a dialect in the sampling builders: the double
\* quote for postgres, the backquote for any other.
IdentQuote(a) == IF ToLower(a) = Postgres THEN "\"" ELSE BT

\* The name between two quotes q, each q inside it doubled.
QuotedIdent(q, name) ==
    <<q>> \o Concat([i \in 1..Len(name) |->
                        IF name[i] = q THEN <<q, q>> ELSE <<name[i]>>])
          \o <<q>>

\* C17: every statement get_sample_data and get_unique_values execute begins
\* with the fixed SELECT text followed by the table name (for unique values
\* the column name, then the table name) wrapped in the quote of the
\* dialect, each such quote inside the name doubled; every later mention of
\* the column is that same quoted form.
C17_IdentifierQuoted ==
    \A k \in 1..Len(log) :
        (IsExecCall(log[k]) /\ req.tool \in {"get_sample_data", "get_unique_values"}) =>
            LET q == IdentQuote(dbType)
                table == QuotedIdent(q, req.params.table.s)
                column == QuotedIdent(q, req.params.column.s)
                query == log[k].query
            IN IF req.tool = "get_sample_data"
               THEN HasPrefix(query, <<"SELECT * FROM ">> \o table)
               ELSE IF req.params.include_counts # VBool(FALSE)
               THEN /\ HasPrefix(query,
                        <<"SELECT ">> \o column
                        \o <<", COUNT(*) AS count, ROUND(COUNT(*) * 100.0 / (SELECT COUNT(*) FROM ">>
                        \o table \o <<"), 2) AS percentage FROM ">> \o table)
                    /\ Contains(query, <<" GROUP BY ">> \o column \o <<" ORDER BY COUNT(*) DESC">>)
               ELSE /\ HasPrefix(query, <<"SELECT DISTINCT ">> \o column \o <<" FROM ">> \o table)
                    /\ Contains(query, <<" ORDER BY ">> \o column \o <<" LIMIT ">>)

\* C17 witness: get_unique_values on postgres for a table and a column whose
\* names hold double quotes has executed its statement.
C17_Witness ==
    /\ pc = "done" /\ req.tool = "get_unique_values" /\ ToLower(dbType) = Postgres
    /\ req.params.table.s = <<"\"", "a", "\"", "b">>
    /\ req.params.column.s = <<"\"", "a", "\"", "b">>
    /\ Len(ExecCalls) = 1
    /\ Contains(ExecCalls[1].query, <<"\"", "\"", "\"", "a", "\"", "\"", "b", "\"">>)

\* The statement excludes the system schemas: its WHERE clause is a NOT IN
\* list naming pg_catalog and information_schema.
ExcludesSystemSchemas(query) ==
    \E i \in 1..Len(query) :
        /\ query[i] = " WHERE n.nspname NOT IN ("
        /\ \E j, k \in (i + 1)..Len(query) :
              /\ query[j] = "'pg_catalog'" /\ query[k] = "'information_schema'"
              /\ \E m \in (i + 1)..Len(query) : m > j /\ m > k /\ query[m] = ")"
              /\ \A n \in (i + 1)..j : query[n] # ")"
              /\ \A n \in (i + 1)..k : query[n] # ")"

\* C20: the statement get_schemas executes on a postgres connection excludes
\* pg_catalog and information_schema when include_system_schemas is false or
\* omitted, alone or followed by AND with the schema name filter when a
\* schema is given; when it is true the statement holds no such exclusion.
C20_SystemSchemasExcluded ==
    \A k \in 1..Len(log) :
        (IsExecCall(log[k]) /\ req.tool = "get_schemas" /\ ToLower(dbType) = Postgres) =>
            LET query == log[k].query
                schema == req.params.schema
                filter == <<"'">> \o Concat([i \in 1..Len(schema.s) |->
                                IF schema.s[i] = "'" THEN <<"'", "'">> ELSE <<schema.s[i]>>])
                          \o <<"'">>
            IN IF req.params.include_system_schemas = VBool(TRUE)
               THEN /\ ~ExcludesSystemSchemas(query)
                    /\ \A i \in 1..Len(query) :
                          query[i] \notin {"'pg_catalog'", "'information_schema'"}
                    /\ schema.t = "string" =>
                          Contains(query, <<" WHERE n.nspname = ">> \o filter)
               ELSE /\ ExcludesSystemSchemas(query)
                    /\ schema.t = "string" =>
                          Contains(query, <<")", " AND n.nspname = ">> \o filter)

\* C20 witness: get_schemas on postgres with include_system_schemas false and
\* a schema name has executed its statement.
C20_Witness ==
    /\ pc = "done" /\ req.tool = "get_schemas" /\ ToLower(dbType) = Postgres
    /\ req.params.include_system_schemas = VBool(FALSE)
    /\ req.params.schema.t = "string"
    /\ Len(ExecCalls) = 1 /\ ExcludesSystemSchemas(ExecCalls[1].query)

\* The invocation at hand repeats the remembered one: the same handler, the
\* same parameters, the same answers from the collaborator.
RepeatsPrev ==
    /\ prev.set
    /\ prev.tool = req.tool
    /\ prev.params = req.params
    /\ prev.answers = Answers(log)

InRegister(g) ==
    gpc[g] \in {"Register", "Register_wait", "Register_store", "Register_stored",
                "Register_unlock"}
InGet(g) == gpc[g] \in {"Get", "Get_read", "Get_unlock"}
RegistryStep(g) ==
    \/ Register_Lock(g) \/ Register_Acquire(g) \/ Register_Store(g)
    \/ Register_Stored(g) \/ Register_Unlock(g)
    \/ Get_RLock(g) \/ Get_Read(g) \/ Get_RUnlock(g)
HandlerStep ==
    \/ GenericSQLTool_Begin
    \/ \E out \in StatelessAnswers : GenericSQLTool_ExecuteReturn(out)
    \/ Return

HasSuffix(text, suffix) ==
    Len(text) >= Len(suffix)
    /\ SubSeq(text, Len(text) - Len(suffix) + 1, Len(text)) = suffix

\* The statement get_sample_data / get_unique_values has executed, if any.
SampleCall == pc = "done" /\ req.tool = "get_sample_data" /\ Len(ExecCalls) = 1
UniqueCall == pc = "done" /\ req.tool = "get_unique_values" /\ Len(ExecCalls) = 1

\* The number a LIMIT clause is to show for a limit parameter: the number
\* given (its whole part), or the default when none is given.
LimitShown(limit, default) ==
    CASE limit = VNum(30) -> <<"3">>
      [] limit = VNum(25) -> <<"2">>
      [] OTHER -> default

\* C21: every statement of get_sample_data ends with LIMIT n, n the limit
\* given or 10 when none is; with random true that LIMIT comes right after
\* ORDER BY RANDOM() on postgres and ORDER BY RAND() on mysql.
C21_RandomThenLimit ==
    SampleCall =>
        LET query == ExecCalls[1].query
            n == LimitShown(req.params.limit, <<"1", "0">>)
        IN /\ HasSuffix(query, <<" LIMIT ">> \o n)
           /\ req.params.random = VBool(TRUE) =>
                 /\ ToLower(dbType) = Postgres =>
                       HasSuffix(query, <<" ORDER BY RANDOM()", " LIMIT ">> \o n)
                 /\ ToLower(dbType) = MySQL =>
                       HasSuffix(query, <<" ORDER BY RAND()", " LIMIT ">> \o n)

\* C21 witness: a random sample on mysql with no limit given, and an
\* order_by fragment, has been executed.
C21_Witness ==
    /\ SampleCall /\ ToLower(dbType) = MySQL
    /\ req.params.random = VBool(TRUE) /\ req.params.limit = VNil
    /\ req.params.order_by # VNil
    /\ HasSuffix(ExecCalls[1].query, <<" ORDER BY RAND()", " LIMIT ", "1", "0">>)

\* The pieces of text the unique-values statement is built from that hold
\* the words COUNT, GROUP BY and DISTINCT.
CountPieces ==
    {", COUNT(*) AS count, ROUND(COUNT(*) * 100.0 / (SELECT COUNT(*) FROM ",
     " ORDER BY COUNT(*) DESC"}
HasPiece(text, pieces) == \E i \in 1..Len(text) : text[i] \in pieces

\* C22: with include_counts false the statement of get_unique_values is
\* SELECT DISTINCT column FROM table ... ORDER BY column LIMIT n, with no
\* GROUP BY and no COUNT; with include_counts true it has COUNT(*) and
\* GROUP BY column, and no DISTINCT.
C22_DistinctOrCounts ==
    UniqueCall =>
        LET query == ExecCalls[1].query
            q == IdentQuote(dbType)
            column == QuotedIdent(q, req.params.column.s)
            table == QuotedIdent(q, req.params.table.s)
            n == LimitShown(req.params.limit, <<"1", "0", "0">>)
        IN /\ req.params.include_counts = VBool(FALSE) =>
                 /\ HasPrefix(query, <<"SELECT DISTINCT ">> \o column \o <<" FROM ">> \o table)
                 /\ HasSuffix(query, <<" ORDER BY ">> \o column \o <<" LIMIT ">> \o n)
                 /\ ~HasPiece(query, CountPieces \cup {" GROUP BY "})
           /\ req.params.include_counts = VBool(TRUE) =>
                 /\ HasPiece(query, CountPieces)
                 /\ Contains(query, <<" GROUP BY ">> \o column)
                 /\ ~HasPiece(query, {"SELECT DISTINCT "})

\* C22 witness: get_unique_values with include_counts false, a where
\* fragment and a limit has been executed.
C22_Witness ==
    /\ UniqueCall
    /\ req.params.include_counts = VBool(FALSE)
    /\ req.params.where # VNil /\ req.params.limit = VNum(30)
    /\ HasPiece(ExecCalls[1].query, {"SELECT DISTINCT "})

\* list_databases has returned its report; the returns of GetDatabaseInfo in
\* it, one per listed ID.
ListCall == pc = "done" /\ req.tool = "list_databases"
InfoReturns == SelectSeq(log, LAMBDA e : e.ev = "return" /\ e.fn = "GetDatabaseInfo")

\* C23 (as claimed, refuted): the row of every listed connection whose
\* GetDatabaseInfo succeeded shows the host and the port of a configuration
\* of that connection.
C23_HostAndPortShown ==
    ListCall =>
        \A k \in 1..Len(databases) :
            InfoReturns[k].ok =>
                \E c \in RegConfigs :
                    /\ c.ID = databases[k]
                    /\ Contains(ret.resp, <<" | ">> \o c.Host \o <<" | ">>
                                          \o IntToText(c.Port) \o <<" | ">>)

\* The pieces of text that open the FROM, GROUP BY and ORDER BY clauses of
\* the index statements of the two dialects.
IndexFromPieces ==
    {" FROM pg_index ix JOIN pg_class i ON i.oid = ix.indexrelid JOIN pg_class t ON t.oid = ix.indrelid JOIN pg_namespace n ON n.oid = t.relnamespace JOIN pg_am a ON a.oid = i.relam, generate_series(0, array_length(ix.indkey, 1) - 1) AS k",
     " FROM information_schema.statistics"}
IndexWherePieces == {" WHERE n.nspname = 'public'", " WHERE table_schema = DATABASE()"}
IndexGroupByPieces ==
    {" GROUP BY t.relname, i.relname, a.amname, ix.indisprimary, ix.indisunique",
     " GROUP BY table_name, index_name, non_unique, index_type"}
IndexOrderByPieces == {" ORDER BY t.relname, i.relname;", " ORDER BY table_name, index_name;"}

\* Where the first piece of a set stands in a statement (past its end when
\* there is none), and the part of a statement from one clause to the next.
PieceAt(text, pieces) ==
    IF HasPiece(text, pieces)
    THEN CHOOSE i \in 1..Len(text) :
            text[i] \in pieces /\ \A j \in 1..(i - 1) : text[j] \notin pieces
    ELSE Len(text) + 1
Clause(text, from, to) == SubSeq(text, PieceAt(text, from), PieceAt(text, to) - 1)

\* The parts of an index statement.
Projection(text) == SubSeq(text, 1, PieceAt(text, IndexFromPieces) - 1)
FromJoin(text) == Clause(text, IndexFromPieces, IndexWherePieces)
WhereFilter(text) == Clause(text, IndexWherePieces, IndexGroupByPieces)
GroupByList(text) == Clause(text, IndexGroupByPieces, IndexOrderByPieces)
OrderByList(text) == SubSeq(text, PieceAt(text, IndexOrderByPieces), Len(text))

\* get_indexes has executed its statement; the statement the builder of the
\* same dialect gives for the same table filter with the detailed flag as
\* given.
IndexCall == pc = "done" /\ req.tool = "get_indexes" /\ Len(ExecCalls) = 1
IndexQuery(detailed) ==
    IF ToLower(dbType) = Postgres
    THEN getPostgresIndexesQuery(OptString(req.params.table), detailed)
    ELSE getMySQLIndexesQuery(OptString(req.params.table), detailed)
IsProperPrefix(a, b) == Len(a) < Len(b) /\ SubSeq(b, 1, Len(a)) = a

\* C24 (as claimed): the statement get_indexes executed has the FROM/JOIN
\* clauses, the WHERE filter and the GROUP BY list of the statement built
\* for the same table filter with the other value of detailed.
C24_DetailedOnlyProjection ==
    IndexCall =>
        LET query == ExecCalls[1].query
            other == IndexQuery(req.params.detailed # VBool(TRUE))
        IN /\ FromJoin(query) = FromJoin(other)
           /\ WhereFilter(query) = WhereFilter(other)
           /\ GroupByList(query) = GroupByList(other)

\* C24 (amended): the statement get_indexes executed is the one built for
\* its flag; it has the FROM/JOIN clauses, the WHERE filter and the ORDER BY
\* of the statement built with the other value of detailed, while the
\* projection and the GROUP BY list of the plain statement are each a proper
\* prefix of those of the detailed one.
C24_DetailedExtendsProjectionAndGroupBy ==
    IndexCall =>
        LET query == ExecCalls[1].query
            plain == IndexQuery(FALSE)
            rich == IndexQuery(TRUE)
        IN /\ query = (IF req.params.detailed = VBool(TRUE) THEN rich ELSE plain)
           /\ FromJoin(plain) = FromJoin(rich) /\ FromJoin(plain) # <<>>
           /\ WhereFilter(plain) = WhereFilter(rich) /\ WhereFilter(plain) # <<>>
           /\ OrderByList(plain) = OrderByList(rich) /\ OrderByList(plain) # <<>>
           /\ IsProperPrefix(Projection(plain), Projection(rich))
           /\ IsProperPrefix(GroupByList(plain), GroupByList(rich))
           /\ plain = Projection(plain) \o FromJoin(plain) \o WhereFilter(plain)
                        \o GroupByList(plain) \o OrderByList(plain)
           /\ rich = Projection(rich) \o FromJoin(rich) \o WhereFilter(rich)
                        \o GroupByList(rich) \o OrderByList(rich)

\* C24 witness: get_indexes with detailed on and a table filter has executed
\* its statement on mysql.
C24_Witness ==
    /\ IndexCall /\ ToLower(dbType) = MySQL
    /\ req.params.detailed = VBool(TRUE) /\ req.params.table.t = "string"
    /\ Len(WhereFilter(ExecCalls[1].query)) > 1
    /\ Len(GroupByList(ExecCalls[1].query)) = 2

\* The optional parameters, and the request with each absent one written
\* out at its stated default: the flags, the limit (10 for get_sample_data,
\* 100 for get_unique_values; numbers are in tenths) and the empty text for
\* the name filters and fragments.
OptionalDefaults(tool) ==
    [detailed |-> VBool(FALSE), include_definition |-> VBool(TRUE),
     include_system_schemas |-> VBool(FALSE), random |-> VBool(FALSE),
     include_counts |-> VBool(TRUE), include_nulls |-> VBool(TRUE),
     limit |-> IF tool = "get_sample_data" THEN VNum(100) ELSE VNum(1000),
     table |-> VStr(<<>>), view |-> VStr(<<>>), type_name |-> VStr(<<>>),
     schema |-> VStr(<<>>), constraint_type |-> VStr(<<>>),
     where |-> VStr(<<>>), order_by |-> VStr(<<>>)]
AbsentOptionals(r) ==
    {k \in DOMAIN OptionalDefaults(r.tool) : r.params[k] = VNil}
WithDefaults(r) ==
    [k \in ParamNames |->
        IF k \in AbsentOptionals(r) THEN OptionalDefaults(r.tool)[k] ELSE r.params[k]]

\* C25: a handler whose request leaves optional parameters out executes the
\* statements, and returns the report, of the request that gives each of
\* them at its stated default.
C25_AbsentMeansDefault ==
    (pc = "done" /\ req.tool \in Tools /\ Len(ExecCalls) >= 1) =>
        LET plan == Switch(req.tool, WithDefaults(req), dbType)
        IN /\ plan.kind = "queries"
           /\ [i \in 1..Len(ExecCalls) |-> ExecCalls[i].query] = plan.queries
           /\ ret.hasResp =>
                 HasPrefix(ret.resp, Heading(req.tool, WithDefaults(req), dbType))

\* C25 witness: get_unique_values with limit, where, include_counts and
\* include_nulls all left out has executed the counting statement with
\* LIMIT 100 and no IS NOT NULL.
C25_Witness ==
    /\ UniqueCall
    /\ {"limit", "where", "include_counts", "include_nulls"} \subseteq AbsentOptionals(req)
    /\ HasSuffix(ExecCalls[1].query, <<" ORDER BY COUNT(*) DESC", " LIMIT ", "1", "0", "0">>)
    /\ ~HasPiece(ExecCalls[1].query, {" IS NOT NULL"})

\* How often a piece stands in a statement, and the places where it does.
Places(text, piece) == {i \in 1..Len(text) : text[i] = piece}

\* C26: the statement of get_unique_values has at most one WHERE written by
\* the builder; column IS NOT NULL is in it exactly when include_nulls is
\* false, after WHERE when the caller gave no where fragment and after the
\* caller's fragment and AND otherwise; and WHERE, GROUP BY (with counts
\* only), ORDER BY and LIMIT come in this order.
C26_WhereAndNulls ==
    UniqueCall =>
        LET query == ExecCalls[1].query
            column == QuotedIdent(IdentQuote(dbType), req.params.column.s)
            fragment == OptString(req.params.where)
            notNull == column \o <<" IS NOT NULL">>
            wheres == Places(query, " WHERE ")
            groups == Places(query, " GROUP BY ")
            orders == Places(query, " ORDER BY ") \cup Places(query, " ORDER BY COUNT(*) DESC")
            limits == Places(query, " LIMIT ")
        IN /\ Cardinality(wheres) <= 1
           /\ Cardinality(wheres) = 1 <=>
                 (fragment # <<>> \/ req.params.include_nulls = VBool(FALSE))
           /\ HasPiece(query, {" IS NOT NULL"}) <=> req.params.include_nulls = VBool(FALSE)
           /\ req.params.include_nulls = VBool(FALSE) =>
                 IF fragment = <<>>
                 THEN Contains(query, <<" WHERE ">> \o notNull)
                 ELSE Contains(query, <<" WHERE ">> \o fragment \o <<" AND ">> \o notNull)
           /\ (req.params.include_nulls # VBool(FALSE) /\ fragment # <<>>) =>
                 \E i \in wheres :
                    SubSeq(query, i + 1, i + Len(fragment) + 1)
                        \in {fragment \o <<" GROUP BY ">>, fragment \o <<" ORDER BY ">>}
           /\ Cardinality(orders) = 1 /\ Cardinality(limits) = 1
           /\ Cardinality(groups) = (IF req.params.include_counts = VBool(FALSE) THEN 0 ELSE 1)
           /\ \A w \in wheres, g \in groups : w < g
           /\ \A w \in wheres, o \in orders : w < o
           /\ \A g \in groups, o \in orders : g < o
           /\ \A o \in orders, l \in limits : o < l

\* C26 witness: get_unique_values with a where fragment, include_nulls false
\* and counts has executed WHERE fragment AND column IS NOT NULL GROUP BY.
C26_Witness ==
    /\ UniqueCall
    /\ req.params.where = VStr(WhereFragment)
    /\ req.params.include_nulls = VBool(FALSE)
    /\ req.params.include_counts # VBool(FALSE)
    /\ Cardinality(Places(ExecCalls[1].query, " WHERE ")) = 1
    /\ Cardinality(Places(ExecCalls[1].query, " AND ")) = 1
    /\ Cardinality(Places(ExecCalls[1].query, " GROUP BY ")) = 1

\* The words a single-statement handler puts before the error of its
\* ExecuteQuery call.
FailedToGet ==
    [get_indexes |-> "failed to get indexes: ",
     get_constraints |-> "failed to get constraints: ",
     get_views |-> "failed to get views: ",
     get_types |-> "failed to get custom data types: ",
     get_schemas |-> "failed to get schemas: ",
     get_sample_data |-> "failed to get sample data: ",
     get_unique_values |-> "failed to get unique values: "]

\* C27: a single-statement handler calls ExecuteQuery at most once in an
\* invocation; once that call has failed the handler has returned its error,
\* wrapped, and no response; a statistics handler whose statement failed
\* returns a response and no error.
C27_SingleStatementFailureAborts ==
    /\ req.tool \in DOMAIN FailedToGet =>
          /\ Len(ExecCalls) <= 1
          /\ \A k \in 1..Len(ExecReturns) :
                ~ExecReturns[k].ok =>
                    /\ pc = "done"
                    /\ ret = [hasResp |-> FALSE, resp |-> <<>>, hasErr |-> TRUE,
                              err |-> <<FailedToGet[req.tool]>> \o ExecReturns[k].text]
    /\ (req.tool \in {"db_stats", "table_stats"} /\ pc = "done" /\ Len(ExecReturns) >= 1) =>
          ret.hasResp /\ ~ret.hasErr

\* C27 witness: the one ExecuteQuery call of get_constraints has failed and
\* the handler has returned the error.
C27_Witness ==
    /\ pc = "done" /\ req.tool = "get_constraints"
    /\ Len(ExecCalls) = 1 /\ Len(ExecReturns) = 1 /\ ~ExecReturns[1].ok
    /\ ret.hasErr /\ ~ret.hasResp

\* C28: when the isQuery parameter of the sql tool is given and is not a
\* bool, the one executor call made is ExecuteStatement, whatever the text
\* of the statement, a text beginning with SELECT included.
C28_NonBoolIsQueryIsStatement ==
    (req.tool = "sql" /\ req.params.isQuery.t \notin {"nil", "bool"}) =>
        /\ \A k \in 1..Len(ExecCalls) :
              /\ ExecCalls[k].fn = "ExecuteStatement"
              /\ ExecCalls[k].query = req.params.sql.s
        /\ pc = "done" /\ BadRequired(req) = {} => Len(ExecCalls) = 1

\* C28 witness: SELECT 1 with isQuery given as a string has been handed to
\* ExecuteStatement.
C28_Witness ==
    /\ pc = "done" /\ req.tool = "sql"
    /\ req.params.isQuery = VStr(<<"true">>)
    /\ req.params.sql = VStr(<<"S", "E", "L", "E", "C", "T", " ", "1">>)
    /\ Len(ExecCalls) = 1 /\ ExecCalls[1].fn = "ExecuteStatement"

\* The pieces of text with which the sample-data builder orders.
RandomOrderPieces == {" ORDER BY RANDOM()", " ORDER BY RAND()"}

\* C29: with random true the statement of get_sample_data orders by the
\* random function only and the caller's order_by fragment is not in it;
\* with random not true and an order_by fragment it has ORDER BY fragment
\* right before LIMIT; with neither it has no ORDER BY.
C29_RandomOverOrderBy ==
    SampleCall =>
        LET query == ExecCalls[1].query
            fragment == OptString(req.params.order_by)
            randoms == {i \in 1..Len(query) : query[i] \in RandomOrderPieces}
            orders == Places(query, " ORDER BY ")
        IN IF req.params.random = VBool(TRUE)
           THEN /\ Cardinality(randoms) = 1 /\ orders = {}
                /\ fragment # <<>> => ~Contains(query, fragment)
           ELSE IF fragment # <<>>
           THEN /\ randoms = {} /\ Cardinality(orders) = 1
                /\ Contains(query, <<" ORDER BY ">> \o fragment \o <<" LIMIT ">>)
           ELSE randoms = {} /\ orders = {}

\* C29 witness: a random sample with an order_by fragment given has been
\* executed on postgres.
C29_Witness ==
    /\ SampleCall /\ ToLower(dbType) = Postgres
    /\ req.params.random = VBool(TRUE)
    /\ req.params.order_by = VStr(OrderByFragment)
    /\ HasPiece(ExecCalls[1].query, {" ORDER BY RANDOM()"})

\* The rows of a list_databases report: the places where a row starts, and
\* the k-th of them.
RowStarts(report) == Places(report, "| ")
RowStart(report, k) ==
    CHOOSE i \in RowStarts(report) :
        Cardinality({j \in RowStarts(report) : j < i}) = k - 1
Numerals == <<"1", "2", "3", "4", "5", "6", "7", "8", "9">>

\* C30: list_databases never returns an error; its finished report is the
\* header followed by one row per ID ListDatabases returned, in that order,
\* numbered from 1; GetDatabaseInfo was called for every ID, and the row of
\* an ID for which it failed is the row of Unknown; with no IDs the report
\* is the header and the sentence that no databases are configured.
C30_ListNeverFails ==
    req.tool = "list_databases" =>
        /\ ~ret.hasErr
        /\ pc = "done" =>
              LET report == ret.resp
                  rest == SubSeq(report, Len(ListDatabasesHeader) + 1, Len(report))
              IN /\ ret.hasResp
                 /\ HasPrefix(report, ListDatabasesHeader)
                 /\ Len(InfoReturns) = Len(databases)
                 /\ Cardinality(RowStarts(rest)) = Len(databases)
                 /\ \A k \in 1..Len(databases) :
                       LET row == SubSeq(rest, RowStart(rest, k),
                                         IF k < Len(databases)
                                         THEN RowStart(rest, k + 1) - 1 ELSE Len(rest))
                           id == <<"| ", Numerals[k], " | ">> \o databases[k]
                       IN /\ InfoReturns[k].db = databases[k]
                          /\ HasPrefix(row, id)
                          /\ InfoReturns[k].ok =>
                                /\ HasPrefix(row, id \o <<" | ">>)
                                /\ HasSuffix(row, <<" |\n">>)
                          /\ ~InfoReturns[k].ok =>
                                row = id \o <<" | Unknown | Unknown | Unknown | Unknown | Unknown |\n">>
                 /\ databases = <<>> <=> rest = <<"No databases configured.\n">>

\* C30 witness: of two listed IDs the first one's GetDatabaseInfo failed and
\* the second one's succeeded, and the report has been returned.
C30_Witness ==
    /\ ListCall /\ Len(databases) = 2
    /\ ~InfoReturns[1].ok /\ InfoReturns[2].ok
    /\ ret.hasResp /\ Cardinality(RowStarts(ret.resp)) = 2

\* ===================================================== the claims: registry

\* The configurations RegisterDatabaseConfig has been called with.
Called == {calls[k] : k \in 1..Len(calls)}

NotFoundResult(id) ==
    [config |-> Config(<<>>, <<>>, <<>>, 0, <<>>, <<>>, <<>>, <<>>), hasErr |-> TRUE,
     err |-> <<"database configuration not found for ID: ">> \o id]

\* C4: a GetDatabaseConfig(id) that has read the map (and still holds the
\* read lock) has the configuration of the last RegisterDatabaseConfig that
\* took the lock with that ID, all fields equal, and a nil error; and
\* whenever no registration is under way the map holds, for each ID
\* registered so far, exactly the last configuration registered under it and
\* nothing else.
C4_GetReturnsLatest ==
    /\ \A g \in Goroutines :
          (gpc[g] = "Get_unlock" /\ registered[garg[g].ID].set) =>
              gret[g] = [config |-> registered[garg[g].ID].config,
                         hasErr |-> FALSE, err |-> <<>>]
    /\ mutexWriter = 0 =>
          /\ DOMAIN configs = {id \in ConfigIDs : registered[id].set}
          /\ \A id \in DOMAIN configs :
                configs[id] = registered[id].config /\ configs[id].ID = id

\* C4 witness: both configurations of db1 were registered, the mysql one
\* last, and a GetDatabaseConfig("db1") has read it.
C4_Witness ==
    \E g \in Goroutines :
        /\ gpc[g] = "Get_unlock" /\ garg[g].ID = <<"db1">>
        /\ Len(calls) = 2 /\ calls[1].ID = <<"db1">> /\ calls[2].ID = <<"db1">>
        /\ calls[1] # calls[2]
        /\ registered[<<"db1">>].config = calls[2]
        /\ gret[g].config = calls[2] /\ gret[g].config.Type = MySQL

\* C5: what a GetDatabaseConfig(id) returns is either the not-found error or,
\* whole, a configuration some RegisterDatabaseConfig call was given for that
\* ID; and the write lock is held only by a goroutine inside its own map
\* update, with no reader inside.
C5_NoTornRead ==
    /\ \A g \in Goroutines :
          gpc[g] \in {"Get_unlock", "Get_done"} =>
              \/ gret[g] = NotFoundResult(garg[g].ID)
              \/ /\ ~gret[g].hasErr
                 /\ gret[g].config \in Called
                 /\ gret[g].config.ID = garg[g].ID
    /\ mutexWriter # 0 =>
          /\ gpc[mutexWriter] \in {"Register_store", "Register_stored", "Register_unlock"}
          /\ mutexReaders = {}
    /\ \A g \in mutexReaders : gpc[g] \in {"Get_read", "Get_unlock"}

\* C5 witness: a reader has read a registered configuration of db1 while a
\* second registration for db1 waits for the lock.
C5_Witness ==
    \E g, h \in Goroutines :
        /\ gpc[g] = "Get_unlock" /\ ~gret[g].hasErr /\ gret[g].config \in Called
        /\ gpc[h] = "Register_wait" /\ garg[h].ID = garg[g].ID
        /\ garg[h] # gret[g].config

\* No RegisterDatabaseConfig call has named this ID.
NeverRegistered(id) == \A k \in 1..Len(calls) : calls[k].ID # id

GetPositions == {"Get", "Get_read", "Get_unlock"}

\* C6: no step of GetDatabaseConfig changes the map, and the read of an ID
\* no RegisterDatabaseConfig call has named yields the not-found error with
\* the empty configuration.
C6_GetUnknown ==
    [][\A g \in Goroutines :
          (gpc[g] \in GetPositions /\ gpc'[g] # gpc[g]) =>
              /\ configs' = configs
              /\ (gpc'[g] = "Get_unlock" /\ NeverRegistered(garg[g].ID)) =>
                    gret'[g] = NotFoundResult(garg[g].ID)]_vars

\* C6 witness: GetDatabaseConfig("db3") has returned the not-found error from
\* a registry that holds db1 and db2.
C6_Witness ==
    \E g \in Goroutines :
        /\ gpc[g] = "Get_done" /\ garg[g].ID = <<"db3">>
        /\ gret[g].hasErr /\ gret[g].config.ID = <<>>
        /\ DOMAIN configs = {<<"db1">>, <<"db2">>}

====
